---- MODULE Spec2Model ----
(***************************************************************************)
(* go-assemble: reassembly of a file that is uploaded as chunks.           *)
(*                                                                         *)
(* Spec is the per-upload-lock design: Middleware of src/assemble.go on    *)
(* the tracker of src/unnamed/part_000, a sync.Map from file ID to *file,  *)
(* each *file with a mutex of its own, and the cleanup goroutine that      *)
(* combineChunks starts.  FaultFreeSpec is Spec with no storage call       *)
(* failing, every handler and goroutine running on.  GlobalLockSpec is the *)
(* earlier Middleware of part_002 on src/tracker.go, StartSpec the         *)
(* start-call design of part_001, PathSpec the naming of chunk files.      *)
(*                                                                         *)
(* net/http serves every request on a goroutine of its own, so a call of   *)
(* Middleware is a sequence of atomic steps, one per access to shared      *)
(* state: the sync.Map, a *file, the chunk directory, the completed        *)
(* directory.  A Load of the sync.Map followed at once by one access to    *)
(* the *file it returned is one step: Store and Delete touch no *file, so  *)
(* no other goroutine can tell the two accesses from one.                  *)
(***************************************************************************)
EXTENDS Integers, Sequences, FiniteSets, TLC

\* Number of requests the clients send.  Each is served by a goroutine of its
\* own, so all of them can be in flight at the same time.
MaxRequests == 2

\* Largest chunk total a client declares.
MaxTotal == 2

Reqs == 1 .. MaxRequests

\* A *file pointer; Nil is the nil pointer.  Only getFileOrAdd allocates, at
\* most once per request.
Nil == 0
Objs == 1 .. MaxRequests

----------------------------------------------------------------------------
\* Strings are sequences of one-character strings.

LetterChars ==
    { "A", "B", "C", "D", "E", "F", "G", "H", "I", "J", "K", "L", "M",
      "N", "O", "P", "Q", "R", "S", "T", "U", "V", "W", "X", "Y", "Z",
      "a", "b", "c", "d", "e", "f", "g", "h", "i", "j", "k", "l", "m",
      "n", "o", "p", "q", "r", "s", "t", "u", "v", "w", "x", "y", "z" }

DigitChars == { "0", "1", "2", "3", "4", "5", "6", "7", "8", "9" }

DigitVal(c) ==
    CASE c = "0" -> 0 [] c = "1" -> 1 [] c = "2" -> 2 [] c = "3" -> 3
      [] c = "4" -> 4 [] c = "5" -> 5 [] c = "6" -> 6 [] c = "7" -> 7
      [] c = "8" -> 8 [] c = "9" -> 9

DigitChar(n) ==
    CASE n = 0 -> "0" [] n = 1 -> "1" [] n = 2 -> "2" [] n = 3 -> "3"
      [] n = 4 -> "4" [] n = 5 -> "5" [] n = 6 -> "6" [] n = 7 -> "7"
      [] n = 8 -> "8" [] n = 9 -> "9"

\* util.go containsInvalidCharacters
containsInvalidCharacters(s) ==
    \E k \in 1 .. Len(s) :
        /\ s[k] \notin LetterChars
        /\ s[k] \notin DigitChars
        /\ s[k] # "_"
        /\ s[k] # "-"

RECURSIVE DecimalValue(_)
DecimalValue(s) ==
    IF s = << >> THEN 0
    ELSE 10 * DecimalValue(SubSeq(s, 1, Len(s) - 1)) + DigitVal(s[Len(s)])

\* strconv.ParseInt(s, 10, 64): an optional sign, then one or more digits.
\* The headers of the model are far below the 64-bit range.
ParseInt(s) ==
    LET signed == Len(s) > 0 /\ s[1] \in { "+", "-" }
        digits == IF signed THEN Tail(s) ELSE s
    IN  IF digits = << >> \/ \E k \in 1 .. Len(digits) : digits[k] \notin DigitChars
        THEN [ok |-> FALSE, val |-> 0]
        ELSE [ok |-> TRUE,
              val |-> IF signed /\ s[1] = "-"
                      THEN 0 - DecimalValue(digits)
                      ELSE DecimalValue(digits)]

\* strconv / fmt "%d" of a non-negative integer.
RECURSIVE FormatInt(_)
FormatInt(n) ==
    IF n < 10 THEN << DigitChar(n) >>
    ELSE FormatInt(n \div 10) \o << DigitChar(n % 10) >>

\* The chunk file named without the hyphen: fmt.Sprintf("%s%d", ...).
chunkFilePath_NoSeparator(fileID, chunkID) == fileID \o FormatInt(chunkID)

\* fmt.Sprintf("%s-%d", fileID, chunkID) under ChunksDir
chunkFilePath(fileID, chunkID) == fileID \o << "-" >> \o FormatInt(chunkID)

----------------------------------------------------------------------------
\* What clients send.

FileIDHeaders == { << >>, << "a" >>, << "a", "/" >> }

IntHeaders(hi) ==
    { << >>, << "x" >>, << "-", "1" >> } \cup { FormatInt(n) : n \in 0 .. hi }

ChunkTotalHeaders == IntHeaders(MaxTotal)
ChunkSequenceHeaders == IntHeaders(MaxTotal)

Payloads == { << "A" >>, << "B" >> }
RequestBodies == Payloads \cup { << >> }

\* The downstream handler either accepts the file or calls RejectFile.
NoReject == [code |-> 0, message |-> ""]
Rejections ==
    { NoReject,
      [code |-> 400, message |-> "bad format"],
      [code |-> 415, message |-> "unsupported mimetype"] }

\* File IDs and sequence numbers that pass validation.
ValidIDs == { h \in FileIDHeaders : h # << >> /\ ~containsInvalidCharacters(h) }
SeqNums == 0 .. (MaxTotal - 1)
ChunkPaths == { chunkFilePath(id, s) : id \in ValidIDs, s \in SeqNums }

----------------------------------------------------------------------------
VARIABLES
    KeepCompletedChunks,  \* AssemblerConfig.KeepCompletedChunks
    lock,           \* part_002 FileChunksAssembler.lock: the request holding it, or 0
    data,           \* FileChunksAssembler.data: file ID -> *file, Nil when absent
    files,          \* the *file objects: chunkSet, expectedTotal, lock
    chunksDir,      \* ChunksDir: path -> the chunk file stored there
    completedDir,   \* CompletedDir: file ID -> the combined file
    pc,             \* where the Middleware call of each request stands
    req,            \* fileID, chunkExpectedTotal, chunkSequenceID, chunkData
    arrival,        \* history: "alone" when no other request was in flight
                    \* as the request arrived, "overlap" otherwise
    f,              \* the *file returned by getFileOrAdd
    response,       \* the progressResponse a handler is building
    event,          \* history: the response the last step sent, if it sent one
    combine,        \* locals of isComplete / combineChunks: n, totalChunks, i
    served,         \* the downstream handler's call: the body it read
    cleanup,        \* the goroutine started by the request's combineChunks; written
                    \* is history: the chunks written since it started, and by whom
    crashed,        \* a panic outside a request handler ended the process
    handoffs,       \* history: downstream calls made while holding each *file
    reported,       \* history: the count in the last progress response sent by
                    \* a request holding each *file
    staged          \* history: the payload last written to each chunk path

vars ==
    << KeepCompletedChunks, lock, data, files, chunksDir, completedDir, pc, req,
       arrival, f, response, event, combine, served, cleanup, crashed, handoffs,
       reported, staged >>

\* A *file nobody points to; make(map[int64]interface{}) is the empty set.
FreeFile == [chunkSet |-> {}, expectedTotal |-> 0, lock |-> 0]

NoChunkFile == [present |-> FALSE, data |-> << >>]
NoCompletedFile == [exists |-> FALSE, bytes |-> << >>]

NoRequest ==
    [fileID |-> << >>, chunkExpectedTotal |-> 0, chunkSequenceID |-> 0,
     chunkData |-> << >>]

\* kind: "error" is an errorResponse, "progress" a progressResponse, "empty"
\* a bare status line, "aborted" a connection closed by a handler panic.
NoResponse == [kind |-> "none", status |-> 0, have |-> 0, want |-> 0, error |-> ""]

\* No response was sent by the last step.  headers is the request when a
\* check of its headers or body failed; fault names the storage call that
\* was made to fail; called and reject tell of the downstream handler.
NoHeaders == [fileID |-> << >>, chunkTotal |-> << >>, chunkSequence |-> << >>,
              body |-> << >>]
NoEvent ==
    [request |-> 0, sent |-> NoResponse, headers |-> NoHeaders, fault |-> "",
     called |-> FALSE, reject |-> NoReject]

\* The step sends res to the client of request r.
Send(r, res) == event' = [NoEvent EXCEPT !.request = r, !.sent = res]

\* The step answers request q of client r with res before anything is stored.
SendInvalid(r, res, q) ==
    event' = [NoEvent EXCEPT !.request = r, !.sent = res, !.headers = q]

\* The step sends res to the client of request r after storage call failed.
SendFault(r, res, call) ==
    event' = [NoEvent EXCEPT !.request = r, !.sent = res, !.fault = call]

\* The step sends res to the client of request r after the downstream
\* handler returned with verdict.
SendServed(r, res, verdict) ==
    event' = [NoEvent EXCEPT !.request = r, !.sent = res, !.called = TRUE,
                             !.reject = verdict]

\* The step sends nothing.
Quiet == event' = NoEvent

NoCombine == [n |-> 0, totalChunks |-> 0, i |-> 0, offset |-> 0]
NotServed == [called |-> FALSE, body |-> << >>]
NoCleanup ==
    [pc |-> "none", fileID |-> << >>, totalChunks |-> 0, i |-> 0, f |-> Nil,
     written |-> {}]

\* util.go badRequest
badRequest(message) ==
    [kind |-> "error", status |-> 400, have |-> 0, want |-> 0, error |-> message]

\* w.WriteHeader(http.StatusInternalServerError); return
internalServerError ==
    [kind |-> "empty", status |-> 500, have |-> 0, want |-> 0, error |-> ""]

\* net/http recovers a panic of the handler goroutine and drops the connection.
aborted ==
    [kind |-> "aborted", status |-> 0, have |-> 0, want |-> 0, error |-> ""]

Init ==
    /\ KeepCompletedChunks \in BOOLEAN
    /\ lock = 0
    /\ data = [id \in ValidIDs |-> Nil]
    /\ files = [o \in Objs |-> FreeFile]
    /\ chunksDir = [p \in ChunkPaths |-> NoChunkFile]
    /\ completedDir = [id \in ValidIDs |-> NoCompletedFile]
    /\ pc = [r \in Reqs |-> "idle"]
    /\ req = [r \in Reqs |-> NoRequest]
    /\ arrival = [r \in Reqs |-> "none"]
    /\ f = [r \in Reqs |-> Nil]
    /\ response = [r \in Reqs |-> NoResponse]
    /\ event = NoEvent
    /\ combine = [r \in Reqs |-> NoCombine]
    /\ served = [r \in Reqs |-> NotServed]
    /\ cleanup = [r \in Reqs |-> NoCleanup]
    /\ crashed = FALSE
    /\ handoffs = [o \in Objs |-> 0]
    /\ reported = [o \in Objs |-> 0]
    /\ staged = [p \in ChunkPaths |-> << >>]

----------------------------------------------------------------------------
\* Garbage collection: a *file that no pointer reaches any more is returned
\* to the free state, so that object names do not distinguish states.

Referenced(o) ==
    \/ \E id \in DOMAIN data : data[id] = o
    \/ \E r \in Reqs : f[r] = o \/ cleanup[r].f = o

ReferencedNext(o) ==
    \/ \E id \in DOMAIN data : data'[id] = o
    \/ \E r \in Reqs : f'[r] = o \/ cleanup'[r].f = o

\* The count reported for *file o once the step has sent event': the count
\* of the progress response, when one was sent by a request that holds o.
lastReported(o) ==
    IF event'.sent.kind = "progress" /\ f[event'.request] = o
    THEN event'.sent.have
    ELSE reported[o]

\* The next heap is h, minus what data', f' and cleanup' no longer reach.
Collect(h) ==
    /\ files' = [o \in Objs |-> IF ReferencedNext(o) THEN h[o] ELSE FreeFile]
    /\ handoffs' = [o \in Objs |-> IF ReferencedNext(o) THEN handoffs[o] ELSE 0]
    /\ reported' = [o \in Objs |-> IF ReferencedNext(o) THEN lastReported(o) ELSE 0]

\* &file{...}: the address of a fresh object.
NewFile == CHOOSE o \in Objs : ~Referenced(o) /\ \A q \in Objs : q < o => Referenced(q)

\* part_000 getFile: a.data.Load(fileID)
getFile(fileID) == data[fileID]

\* The handler of request r returns: deferred f.lock.Unlock(), locals dropped
\* (req keeps what was submitted, as history).
\* h is the heap the step leaves.
Unlock(r, h) ==
    /\ pc' = [pc EXCEPT ![r] = "done"]
    /\ req' = req
    /\ f' = [f EXCEPT ![r] = Nil]
    /\ response' = [response EXCEPT ![r] = NoResponse]
    /\ combine' = [combine EXCEPT ![r] = NoCombine]
    /\ served' = [served EXCEPT ![r] = NotServed]
    /\ Collect([h EXCEPT ![f[r]].lock = 0])

\* The handler of request r answers res and returns.
Return(r, h, res) ==
    /\ Send(r, res)
    /\ Unlock(r, h)

\* The handler of request r moves on to step next; nothing is sent yet.
Goto(r, next) ==
    /\ pc' = [pc EXCEPT ![r] = next]
    /\ Quiet

----------------------------------------------------------------------------
\* Middleware, src/assemble.go 158-185: the checks made before any shared
\* state is touched.  The result is the error message, "" when all pass.

\* getFileID
getFileID(h) ==
    IF h = << >> THEN "file ID is required"
    ELSE IF containsInvalidCharacters(h)
         THEN "file ID only supports alphanumeric, underscores and hyphens"
         ELSE ""

\* getChunkTotal
getChunkTotal(h) ==
    IF ~ParseInt(h).ok THEN "expected chunks must be an integer"
    ELSE IF ParseInt(h).val <= 0 THEN "expected chunks must be positive"
         ELSE ""

\* getChunkSequence
getChunkSequence(h) ==
    IF ~ParseInt(h).ok THEN "sequence number must be an integer"
    ELSE IF ParseInt(h).val < 0 THEN "expected chunks cannot be negative"
         ELSE ""

\* The range check with the comparison off by one: the total itself passes.
sequenceInRange_Inclusive(chunkSequenceID, chunkExpectedTotal) ==
    IF chunkSequenceID > chunkExpectedTotal
    THEN "sequence number must be between 0 and N"
    ELSE ""

\* chunkSequenceID >= chunkExpectedTotal
sequenceInRange(chunkSequenceID, chunkExpectedTotal) ==
    IF chunkSequenceID >= chunkExpectedTotal
    THEN "sequence number must be between 0 and N"
    ELSE ""

\* The checks without the last one: an empty body passes.
validate_AnyBody(idH, totalH, seqH, body) ==
    IF getFileID(idH) # "" THEN getFileID(idH)
    ELSE IF getChunkTotal(totalH) # "" THEN getChunkTotal(totalH)
    ELSE IF getChunkSequence(seqH) # "" THEN getChunkSequence(seqH)
    ELSE IF sequenceInRange(ParseInt(seqH).val, ParseInt(totalH).val) # ""
         THEN sequenceInRange(ParseInt(seqH).val, ParseInt(totalH).val)
    ELSE ""

validate(idH, totalH, seqH, body) ==
    IF getFileID(idH) # "" THEN getFileID(idH)
    ELSE IF getChunkTotal(totalH) # "" THEN getChunkTotal(totalH)
    ELSE IF getChunkSequence(seqH) # "" THEN getChunkSequence(seqH)
    ELSE IF sequenceInRange(ParseInt(seqH).val, ParseInt(totalH).val) # ""
         THEN sequenceInRange(ParseInt(seqH).val, ParseInt(totalH).val)
    ELSE IF Len(body) = 0 THEN "chunk cannot be empty"
    ELSE ""

\* Every request a client can send: the three headers and the body.
Requests ==
    [fileID : FileIDHeaders, chunkTotal : ChunkTotalHeaders,
     chunkSequence : ChunkSequenceHeaders, body : RequestBodies]

\* The error message Middleware answers request q with, "" when it has none.
validateRequest(q) == validate(q.fileID, q.chunkTotal, q.chunkSequence, q.body)

\* The locals of Middleware after the checks passed.
parsed(q) ==
    [fileID |-> q.fileID,
     chunkExpectedTotal |-> ParseInt(q.chunkTotal).val,
     chunkSequenceID |-> ParseInt(q.chunkSequence).val,
     chunkData |-> q.body]

\* The locals of Middleware for the requests that pass every check.
GoodRequests == { parsed(q) : q \in { x \in Requests : validateRequest(x) = "" } }

\* Requests arrive in the order of their numbers.
Arrives(r) ==
    /\ ~crashed
    /\ pc[r] = "idle"
    /\ r > 1 => pc[r - 1] # "idle"

\* The history of the arrival of request r.
Arrived(r) ==
    arrival' = [arrival EXCEPT
                  ![r] = IF \A o \in Reqs : pc[o] \in { "idle", "done" }
                         THEN "alone" ELSE "overlap"]

\* A request arrives with bad headers or an empty body: HTTP 400.
BadRequest(r) ==
    /\ Arrives(r)
    /\ \E q \in Requests :
          /\ validateRequest(q) # ""
          /\ SendInvalid(r, badRequest(validateRequest(q)), q)
    /\ pc' = [pc EXCEPT ![r] = "done"]
    /\ Arrived(r)
    /\ UNCHANGED << KeepCompletedChunks, lock, data, files, chunksDir, completedDir, req,
                    f, response, combine, served, cleanup, crashed, handoffs, reported,
                    staged >>

\* ioutil.ReadAll(r.Body) fails after the headers passed: HTTP 500.
ReadBodyFails(r) ==
    /\ Arrives(r)
    /\ SendFault(r, internalServerError, "ReadAll")
    /\ pc' = [pc EXCEPT ![r] = "done"]
    /\ Arrived(r)
    /\ UNCHANGED << KeepCompletedChunks, lock, data, files, chunksDir, completedDir, req,
                    f, response, combine, served, cleanup, crashed, handoffs, reported,
                    staged >>

----------------------------------------------------------------------------
\* part_000 getFileOrAdd: a Load, and when it finds nothing a Store of a new
\* *file.  The two calls on the sync.Map are separate steps.

\* A request q that passes the checks (they touch no shared state), up to
\* the Load of getFileOrAdd.
getFileOrAdd_Load(r) ==
    /\ Arrives(r)
    /\ \E q \in GoodRequests :
          /\ req' = [req EXCEPT ![r] = q]
          /\ IF getFile(q.fileID) # Nil
             THEN /\ f' = [f EXCEPT ![r] = getFile(q.fileID)]
                  /\ Goto(r, "Lock")
             ELSE /\ f' = f
                  /\ Goto(r, "Store")
    /\ Arrived(r)
    /\ UNCHANGED << KeepCompletedChunks, lock, data, files, chunksDir, completedDir,
                    response, combine, served, cleanup, crashed, handoffs, reported, staged >>

\* getFileOrAdd storing a *file that already holds the chunk of the request
\* that creates it.
getFileOrAdd_Store_Recorded(r) ==
    /\ ~crashed
    /\ pc[r] = "Store"
    /\ data' = [data EXCEPT ![req[r].fileID] = NewFile]
    /\ f' = [f EXCEPT ![r] = NewFile]
    /\ Goto(r, "Lock")
    /\ UNCHANGED << KeepCompletedChunks, lock, arrival, chunksDir, completedDir, req,
                    response, combine, served, cleanup, crashed, staged >>
    /\ Collect([files EXCEPT
                  ![NewFile] = [chunkSet |-> { req[r].chunkSequenceID },
                                expectedTotal |-> req[r].chunkExpectedTotal,
                                lock |-> 0]])

getFileOrAdd_Store(r) ==
    /\ ~crashed
    /\ pc[r] = "Store"
    /\ data' = [data EXCEPT ![req[r].fileID] = NewFile]
    /\ f' = [f EXCEPT ![r] = NewFile]
    /\ Goto(r, "Lock")
    /\ UNCHANGED << KeepCompletedChunks, lock, arrival, chunksDir, completedDir, req, response,
                    combine, served, cleanup, crashed, staged >>
    /\ Collect([files EXCEPT
                  ![NewFile] = [chunkSet |-> {},
                                expectedTotal |-> req[r].chunkExpectedTotal,
                                lock |-> 0]])

\* Middleware without the comparison of f.expectedTotal: the chunk is added
\* whatever total the request declares.
Lock_Unchecked(r) ==
    /\ ~crashed
    /\ pc[r] = "Lock"
    /\ files[f[r]].lock = 0
    /\ files' = [files EXCEPT ![f[r]].lock = r]
    /\ Goto(r, "add")
    /\ UNCHANGED << KeepCompletedChunks, lock, arrival, data, chunksDir, completedDir, req, f,
                    response, combine, served, cleanup, crashed, handoffs, reported, staged >>

\* f.lock.Lock() and the comparison of f.expectedTotal, which never changes.
Lock(r) ==
    /\ ~crashed
    /\ pc[r] = "Lock"
    /\ files[f[r]].lock = 0
    /\ files[f[r]].expectedTotal = req[r].chunkExpectedTotal
    /\ files' = [files EXCEPT ![f[r]].lock = r]
    /\ Goto(r, "add")
    /\ UNCHANGED << KeepCompletedChunks, lock, arrival, data, chunksDir, completedDir, req, f,
                    response, combine, served, cleanup, crashed, handoffs, reported, staged >>

\* f.expectedTotal != chunkExpectedTotal: badRequest(ErrChunkQuantityChange),
\* and the deferred Unlock.
QuantityChange(r) ==
    /\ ~crashed
    /\ pc[r] = "Lock"
    /\ files[f[r]].lock = 0
    /\ files[f[r]].expectedTotal # req[r].chunkExpectedTotal
    /\ UNCHANGED << KeepCompletedChunks, lock, arrival, data, chunksDir, completedDir, staged,
                    cleanup, crashed >>
    /\ Return(r, files, badRequest("cannot change expected number of chunks"))

----------------------------------------------------------------------------
\* part_000 add: ioutil.WriteFile, then a.getFile(fileID).chunkSet[chunkID] = nil

\* ioutil.WriteFile replaces the chunk file.
add_WriteFile(r) ==
    /\ ~crashed
    /\ pc[r] = "add"
    /\ chunksDir' = [chunksDir EXCEPT
                       ![chunkFilePath(req[r].fileID, req[r].chunkSequenceID)] =
                           [present |-> TRUE, data |-> req[r].chunkData]]
    /\ staged' = [staged EXCEPT
                    ![chunkFilePath(req[r].fileID, req[r].chunkSequenceID)] =
                        req[r].chunkData]
    /\ cleanup' = [g \in Reqs |->
                     IF cleanup[g].pc # "none" /\ cleanup[g].fileID = req[r].fileID
                     THEN [cleanup[g] EXCEPT
                             !.written = @ \cup { [chunkID |-> req[r].chunkSequenceID,
                                                   request |-> r] }]
                     ELSE cleanup[g]]
    /\ Goto(r, "chunkSet")
    /\ UNCHANGED << KeepCompletedChunks, lock, arrival, data, files, completedDir, req, f,
                    response, combine, served, crashed, handoffs, reported >>

\* add with the sequence number recorded before the write is attempted: a
\* failed write leaves it in the received set.
add_WriteFileFails_Recorded(r) ==
    /\ ~crashed
    /\ pc[r] = "add"
    /\ UNCHANGED << KeepCompletedChunks, lock, arrival, data, chunksDir, completedDir,
                    staged, cleanup, crashed >>
    /\ SendFault(r, internalServerError, "WriteFile")
    /\ Unlock(r, IF data[req[r].fileID] = Nil
                 THEN files
                 ELSE [files EXCEPT
                         ![data[req[r].fileID]].chunkSet =
                             @ \cup { req[r].chunkSequenceID }])

\* ioutil.WriteFile returns an error: HTTP 500.  The file it could not open
\* is left as it was.
add_WriteFileFails(r) ==
    /\ ~crashed
    /\ pc[r] = "add"
    /\ UNCHANGED << KeepCompletedChunks, lock, arrival, data, chunksDir, completedDir,
                    staged, cleanup, crashed >>
    /\ SendFault(r, internalServerError, "WriteFile")
    /\ Unlock(r, files)

\* The received chunks kept as a list that is appended to: a sequence number
\* recorded twice is counted twice.
chunkSetAdd_Appended(set, chunkID) ==
    IF chunkID \in set
    THEN set \cup { MaxTotal + Cardinality(set) }
    ELSE set \cup { chunkID }

\* The received set after chunkID is recorded in it.
chunkSetAdd(set, chunkID) == set \cup { chunkID }

\* a.getFile(fileID).chunkSet[chunkID] = nil.  The *file is looked up again
\* by file ID; a nil result is a nil-pointer panic in the handler.
add_chunkSet(r) ==
    /\ ~crashed
    /\ pc[r] = "chunkSet"
    /\ UNCHANGED << KeepCompletedChunks, lock, arrival, data, chunksDir, completedDir, staged,
                    cleanup, crashed >>
    /\ IF getFile(req[r].fileID) = Nil
       THEN Return(r, files, aborted)
       ELSE /\ Goto(r, "countChunks")
            /\ UNCHANGED << req, f, response, combine, served, handoffs, reported >>
            /\ files' = [files EXCEPT
                           ![getFile(req[r].fileID)].chunkSet =
                               chunkSetAdd(@, req[r].chunkSequenceID)]

----------------------------------------------------------------------------
\* Middleware 197-201: the progress response, then isComplete.  countChunks
\* and totalChunks each look the *file up again; nil is a panic.

\* part_000 countChunks
countChunks(fileID) == Cardinality(files[getFile(fileID)].chunkSet)

\* part_000 totalChunks
totalChunks(fileID) == files[getFile(fileID)].expectedTotal

\* CurrentChunks: a.countChunks(fileID)
response_countChunks(r) ==
    /\ ~crashed
    /\ pc[r] = "countChunks"
    /\ UNCHANGED << KeepCompletedChunks, lock, arrival, data, chunksDir, completedDir, staged,
                    cleanup, crashed >>
    /\ IF getFile(req[r].fileID) = Nil
       THEN Return(r, files, aborted)
       ELSE /\ response' = [response EXCEPT ![r].have = countChunks(req[r].fileID)]
            /\ Goto(r, "totalChunks")
            /\ UNCHANGED << files, req, f, combine, served, handoffs, reported >>

\* ExpectedChunks: a.totalChunks(fileID)
response_totalChunks(r) ==
    /\ ~crashed
    /\ pc[r] = "totalChunks"
    /\ UNCHANGED << KeepCompletedChunks, lock, arrival, data, chunksDir, completedDir, staged,
                    cleanup, crashed >>
    /\ IF getFile(req[r].fileID) = Nil
       THEN Return(r, files, aborted)
       ELSE /\ response' = [response EXCEPT ![r].want = totalChunks(req[r].fileID)]
            /\ Goto(r, "isComplete")
            /\ UNCHANGED << files, req, f, combine, served, handoffs, reported >>

\* json.NewEncoder(w).Encode(response) with no rejection: HTTP 200.
progress(res) == [res EXCEPT !.kind = "progress", !.status = 200]

\* isComplete: the left operand, a.countChunks(fileID)
isComplete_countChunks(r) ==
    /\ ~crashed
    /\ pc[r] = "isComplete"
    /\ UNCHANGED << KeepCompletedChunks, lock, arrival, data, chunksDir, completedDir, staged,
                    cleanup, crashed >>
    /\ IF getFile(req[r].fileID) = Nil
       THEN Return(r, files, aborted)
       ELSE /\ combine' = [combine EXCEPT ![r].n = countChunks(req[r].fileID)]
            /\ Goto(r, "isComplete2")
            /\ UNCHANGED << files, req, f, response, served, handoffs, reported >>

\* isComplete: the right operand, a.totalChunks(fileID), and the comparison.
\* Not complete: the progress response is written and the handler returns.
isComplete_totalChunks(r) ==
    /\ ~crashed
    /\ pc[r] = "isComplete2"
    /\ UNCHANGED << KeepCompletedChunks, lock, arrival, data, chunksDir, completedDir, staged,
                    cleanup, crashed >>
    /\ IF getFile(req[r].fileID) = Nil
       THEN Return(r, files, aborted)
       ELSE IF combine[r].n = totalChunks(req[r].fileID)
            THEN /\ Goto(r, "combineChunks")
                 /\ UNCHANGED << files, req, f, response, combine, served, handoffs, reported >>
            ELSE Return(r, files, progress(response[r]))

----------------------------------------------------------------------------
\* part_000 combineChunks

\* if !a.isComplete(fileID): the left operand
combineChunks_countChunks(r) ==
    /\ ~crashed
    /\ pc[r] = "combineChunks"
    /\ UNCHANGED << KeepCompletedChunks, lock, arrival, data, chunksDir, completedDir, staged,
                    cleanup, crashed >>
    /\ IF getFile(req[r].fileID) = Nil
       THEN Return(r, files, aborted)
       ELSE /\ combine' = [combine EXCEPT ![r].n = countChunks(req[r].fileID)]
            /\ Goto(r, "combineChunks2")
            /\ UNCHANGED << files, req, f, response, served, handoffs, reported >>

\* if !a.isComplete(fileID): the right operand.  Not complete: combineChunks
\* returns ("", nil), and Middleware's getFileSize("") fails: HTTP 500.
combineChunks_totalChunks(r) ==
    /\ ~crashed
    /\ pc[r] = "combineChunks2"
    /\ UNCHANGED << KeepCompletedChunks, lock, arrival, data, chunksDir, completedDir, staged,
                    cleanup, crashed >>
    /\ IF getFile(req[r].fileID) = Nil
       THEN Return(r, files, aborted)
       ELSE IF combine[r].n = totalChunks(req[r].fileID)
            THEN /\ Goto(r, "Create")
                 /\ UNCHANGED << files, req, f, response, combine, served, handoffs, reported >>
            ELSE Return(r, files, internalServerError)

\* os.Create(completedFilePath): the file exists and is empty.  Then
\* totalChunks := a.totalChunks(fileID), which reads the sync.Map and a field
\* that never changes, and no step writes both the sync.Map and the
\* completed file: one step.
combineChunks_Create(r) ==
    /\ ~crashed
    /\ pc[r] = "Create"
    /\ completedDir' = [completedDir EXCEPT
                          ![req[r].fileID] = [exists |-> TRUE, bytes |-> << >>]]
    /\ UNCHANGED << KeepCompletedChunks, lock, arrival, data, chunksDir, staged, cleanup, crashed >>
    /\ IF getFile(req[r].fileID) = Nil
       THEN Return(r, files, aborted)
       ELSE /\ combine' = [combine EXCEPT
                             ![r].totalChunks = totalChunks(req[r].fileID),
                             ![r].i = 0]
            /\ Goto(r, "ReadFile")
            /\ UNCHANGED << files, req, f, response, served, handoffs, reported >>

\* os.Create returns an error: HTTP 500.
combineChunks_CreateFails(r) ==
    /\ ~crashed
    /\ pc[r] = "Create"
    /\ UNCHANGED << KeepCompletedChunks, lock, arrival, data, chunksDir, completedDir,
                    staged, cleanup, crashed >>
    /\ SendFault(r, internalServerError, "Create")
    /\ Unlock(r, files)

\* A write of chunk at byte offset off of a file holding bytes: the bytes
\* between the end of the file and the offset are a hole of zero bytes.
WriteAt(bytes, off, chunk) ==
    LET hole == [k \in 1 .. (off - Len(bytes)) |-> "\\0"]
        padded == IF Len(bytes) < off THEN bytes \o hole ELSE bytes
    IN  SubSeq(padded, 1, off) \o chunk
            \o SubSeq(padded, off + Len(chunk) + 1, Len(padded))

\* combineChunks starting the goroutine whatever KeepCompletedChunks says.
startCleanup_Always(r) ==
    [pc |-> "Remove", fileID |-> req[r].fileID,
     totalChunks |-> combine[r].totalChunks, i |-> 0, f |-> Nil,
     written |-> {}]

\* The goroutine combineChunks starts unless KeepCompletedChunks is set.
startCleanup(r) ==
    IF KeepCompletedChunks
    THEN cleanup[r]
    ELSE [pc |-> "Remove", fileID |-> req[r].fileID,
          totalChunks |-> combine[r].totalChunks, i |-> 0, f |-> Nil,
          written |-> {}]

\* The index the loop reads next.
loopIndex(r) == combine[r].i

\* One turn of the loop: os.ReadFile of chunk i, f.Write of what was read.
\* After the last turn the cleanup goroutine is started.
combineChunks_ReadFile(r) ==
    /\ ~crashed
    /\ pc[r] = "ReadFile"
    /\ chunksDir[chunkFilePath(req[r].fileID, loopIndex(r))].present
    /\ completedDir' =
         [completedDir EXCEPT
            ![req[r].fileID].bytes =
                WriteAt(@, combine[r].offset,
                        chunksDir[chunkFilePath(req[r].fileID, loopIndex(r))].data)]
    /\ combine' =
         [combine EXCEPT
            ![r].i = @ + 1,
            ![r].offset =
                @ + Len(chunksDir[chunkFilePath(req[r].fileID, loopIndex(r))].data)]
    /\ IF combine[r].i + 1 < combine[r].totalChunks
       THEN /\ Goto(r, "ReadFile")
            /\ cleanup' = cleanup
       ELSE /\ Goto(r, "ServeHTTP")
            /\ cleanup' = [cleanup EXCEPT ![r] = startCleanup(r)]
    /\ UNCHANGED << KeepCompletedChunks, lock, arrival, data, files, chunksDir, staged, req, f,
                    response, served, crashed, handoffs, reported >>

\* os.ReadFile finds no chunk file: combineChunks returns the error, HTTP 500.
combineChunks_ReadFileMissing(r) ==
    /\ ~crashed
    /\ pc[r] = "ReadFile"
    /\ ~chunksDir[chunkFilePath(req[r].fileID, loopIndex(r))].present
    /\ UNCHANGED << KeepCompletedChunks, lock, arrival, data, chunksDir, completedDir,
                    staged, cleanup, crashed >>
    /\ Return(r, files, internalServerError)

\* A combineChunks that, failing to read a chunk, gives the upload up: the
\* entry is taken out of the registry.
combineChunks_ReadFileFails_GivesUp(r) ==
    /\ ~crashed
    /\ pc[r] = "ReadFile"
    /\ chunksDir[chunkFilePath(req[r].fileID, loopIndex(r))].present
    /\ data' = [data EXCEPT ![req[r].fileID] = Nil]
    /\ UNCHANGED << KeepCompletedChunks, lock, arrival, chunksDir, completedDir,
                    staged, cleanup, crashed >>
    /\ SendFault(r, internalServerError, "ReadFile")
    /\ Unlock(r, files)

\* os.ReadFile fails on a chunk file that is there: HTTP 500.
combineChunks_ReadFileFails(r) ==
    /\ ~crashed
    /\ pc[r] = "ReadFile"
    /\ chunksDir[chunkFilePath(req[r].fileID, loopIndex(r))].present
    /\ UNCHANGED << KeepCompletedChunks, lock, arrival, data, chunksDir, completedDir,
                    staged, cleanup, crashed >>
    /\ SendFault(r, internalServerError, "ReadFile")
    /\ Unlock(r, files)

----------------------------------------------------------------------------
\* Middleware 207-250: the handoff to the downstream handler.

\* One more downstream call; the history counts up to two.
countHandoff(n) == IF n < 2 THEN n + 1 ELSE n

\* os.Open(completedFilePath) and h.ServeHTTP(nil, &req): the handler starts
\* and reads the request body, which is the completed file.
ServeHTTP(r) ==
    /\ ~crashed
    /\ pc[r] = "ServeHTTP"
    /\ served' = [served EXCEPT
                    ![r] = [called |-> TRUE,
                            body |-> completedDir[req[r].fileID].bytes]]
    /\ handoffs' = [handoffs EXCEPT ![f[r]] = countHandoff(@)]
    /\ reported' = reported
    /\ Goto(r, "Encode")
    /\ UNCHANGED << KeepCompletedChunks, lock, arrival, data, files, chunksDir, completedDir,
                    staged, req, f, response, combine, cleanup, crashed >>

\* util.go RejectFile, seen from Middleware 242-247: the rejection's message
\* becomes the response's error and its code the status.
rejected(res, verdict) ==
    IF verdict = NoReject
    THEN progress(res)
    ELSE [res EXCEPT !.kind = "progress", !.status = verdict.code,
                     !.error = verdict.message]

\* The handler returns, having called RejectFile or not; the final progress
\* update is sent, and the deferred Unlock runs.
Encode(r) ==
    /\ ~crashed
    /\ pc[r] = "Encode"
    /\ UNCHANGED << KeepCompletedChunks, lock, arrival, data, chunksDir, completedDir, staged,
                    cleanup, crashed >>
    /\ \E verdict \in Rejections :
          SendServed(r, rejected(response[r], verdict), verdict)
    /\ Unlock(r, files)

----------------------------------------------------------------------------
\* The cleanup goroutine of combineChunks (part_000 98-102): a.delete(fileID, i)
\* for i = 0 .. totalChunks-1, errors ignored.  It takes no lock.

\* i++ and the loop test; the goroutine ends after the last chunk.
nextDelete(c) ==
    IF c.i + 1 < c.totalChunks
    THEN [c EXCEPT !.pc = "Remove", !.i = @ + 1, !.f = Nil]
    ELSE NoCleanup

\* part_000 delete: os.Remove(chunkFilePath) succeeds.
delete_Remove(g) ==
    /\ ~crashed
    /\ Quiet
    /\ cleanup[g].pc = "Remove"
    /\ chunksDir[chunkFilePath(cleanup[g].fileID, cleanup[g].i)].present
    /\ chunksDir' = [chunksDir EXCEPT
                       ![chunkFilePath(cleanup[g].fileID, cleanup[g].i)] = NoChunkFile]
    /\ cleanup' = [cleanup EXCEPT ![g].pc = "chunkSet"]
    /\ UNCHANGED << KeepCompletedChunks, lock, arrival, data, files, completedDir, pc, req, f,
                    response, combine, served, crashed, handoffs, reported, staged >>

\* part_000 delete: os.Remove returns an error, as it does when the file is
\* missing; delete returns it and the goroutine goes on to the next chunk.
delete_RemoveFails(g) ==
    /\ ~crashed
    /\ Quiet
    /\ cleanup[g].pc = "Remove"
    /\ cleanup' = [cleanup EXCEPT ![g] = nextDelete(@)]
    /\ UNCHANGED << KeepCompletedChunks, lock, arrival, data, chunksDir, completedDir, pc, req, f,
                    response, combine, served, crashed, staged >>
    /\ Collect(files)

\* The received set after chunkID is taken out of it.
chunkSetDelete(set, chunkID) == set \ { chunkID }

\* part_000 delete: f := a.getFile(fileID); delete(f.chunkSet, chunkID).
\* A nil f is a nil-pointer panic in a goroutine nobody recovers: the process
\* exits.
delete_chunkSet(g) ==
    /\ ~crashed
    /\ Quiet
    /\ cleanup[g].pc = "chunkSet"
    /\ UNCHANGED << KeepCompletedChunks, lock, arrival, data, chunksDir, completedDir, pc, req, f,
                    response, combine, served, handoffs, reported, staged >>
    /\ IF getFile(cleanup[g].fileID) = Nil
       THEN /\ crashed' = TRUE
            /\ UNCHANGED << files, cleanup >>
       ELSE /\ crashed' = crashed
            /\ cleanup' = [cleanup EXCEPT
                             ![g].pc = "len",
                             ![g].f = getFile(cleanup[g].fileID)]
            /\ files' = [files EXCEPT
                           ![getFile(cleanup[g].fileID)].chunkSet =
                               chunkSetDelete(@, cleanup[g].i)]

\* part_000 delete: if len(f.chunkSet) == 0
delete_len(g) ==
    /\ ~crashed
    /\ Quiet
    /\ cleanup[g].pc = "len"
    /\ cleanup' = [cleanup EXCEPT
                     ![g] = IF files[cleanup[g].f].chunkSet = {}
                            THEN [@ EXCEPT !.pc = "Delete", !.f = Nil]
                            ELSE nextDelete(@)]
    /\ UNCHANGED << KeepCompletedChunks, lock, arrival, data, chunksDir, completedDir, pc, req, f,
                    response, combine, served, crashed, staged >>
    /\ Collect(files)

\* part_000 delete: a.data.Delete(fileID) removes whatever the key holds.
delete_Delete(g) ==
    /\ ~crashed
    /\ Quiet
    /\ cleanup[g].pc = "Delete"
    /\ data' = [data EXCEPT ![cleanup[g].fileID] = Nil]
    /\ cleanup' = [cleanup EXCEPT ![g] = nextDelete(@)]
    /\ UNCHANGED << KeepCompletedChunks, lock, arrival, chunksDir, completedDir, pc, req, f,
                    response, combine, served, crashed, staged >>
    /\ Collect(files)

----------------------------------------------------------------------------
Next ==
    \E r \in Reqs :
        \/ BadRequest(r)
        \/ ReadBodyFails(r)
        \/ getFileOrAdd_Load(r)
        \/ getFileOrAdd_Store(r)
        \/ Lock(r)
        \/ QuantityChange(r)
        \/ add_WriteFile(r)
        \/ add_WriteFileFails(r)
        \/ add_chunkSet(r)
        \/ response_countChunks(r)
        \/ response_totalChunks(r)
        \/ isComplete_countChunks(r)
        \/ isComplete_totalChunks(r)
        \/ combineChunks_countChunks(r)
        \/ combineChunks_totalChunks(r)
        \/ combineChunks_Create(r)
        \/ combineChunks_CreateFails(r)
        \/ combineChunks_ReadFile(r)
        \/ combineChunks_ReadFileMissing(r)
        \/ combineChunks_ReadFileFails(r)
        \/ ServeHTTP(r)
        \/ Encode(r)
        \/ delete_Remove(r)
        \/ delete_RemoveFails(r)
        \/ delete_chunkSet(r)
        \/ delete_len(r)
        \/ delete_Delete(r)

Spec == Init /\ [][Next]_vars

----------------------------------------------------------------------------
\* The earlier Middleware, src/unnamed/part_002, over the tracker of
\* src/tracker.go: a.data is a plain map and one mutex, a.lock, guards it for
\* every upload.  No *file has a lock of its own (its lock field stays 0) and
\* no request keeps a *file (f stays Nil).

\* The file IDs uploads are made for.
UploadIDs == { << "a" >>, << "b" >> }
UploadPaths == { chunkFilePath(id, s) : id \in UploadIDs, s \in SeqNums }

\* Every request a client can send to this Middleware.
Requests_002 ==
    [fileID : FileIDHeaders \cup UploadIDs, chunkTotal : ChunkTotalHeaders,
     chunkSequence : ChunkSequenceHeaders, body : RequestBodies]

\* part_002 117-161: the checks made before a.lock is taken.  The result is
\* the error message, "" when all pass.
Middleware_validate(q) ==
    IF q.fileID = << >> THEN "file ID is required"
    ELSE IF containsInvalidCharacters(q.fileID)
         THEN "file ID only supports alphanumeric, underscores and hyphens"
    ELSE IF ~ParseInt(q.chunkTotal).ok THEN "expected chunks must be an integer"
    ELSE IF ParseInt(q.chunkTotal).val <= 0 THEN "expected chunks cannot be negative"
    ELSE IF ~ParseInt(q.chunkSequence).ok THEN "sequence number must be an integer"
    ELSE IF \/ ParseInt(q.chunkSequence).val < 0
            \/ ParseInt(q.chunkSequence).val >= ParseInt(q.chunkTotal).val
         THEN "sequence number must be between 0 and N"
    ELSE IF Len(q.body) = 0 THEN "chunk cannot be empty"
    ELSE ""

\* NewFileChunksAssembler, part_002 103-107: data is an empty map.
GlobalLockInit ==
    /\ KeepCompletedChunks \in BOOLEAN
    /\ lock = 0
    /\ data = [id \in UploadIDs |-> Nil]
    /\ files = [o \in Objs |-> FreeFile]
    /\ chunksDir = [p \in UploadPaths |-> NoChunkFile]
    /\ completedDir = [id \in UploadIDs |-> NoCompletedFile]
    /\ pc = [r \in Reqs |-> "idle"]
    /\ req = [r \in Reqs |-> NoRequest]
    /\ arrival = [r \in Reqs |-> "none"]
    /\ f = [r \in Reqs |-> Nil]
    /\ response = [r \in Reqs |-> NoResponse]
    /\ event = NoEvent
    /\ combine = [r \in Reqs |-> NoCombine]
    /\ served = [r \in Reqs |-> NotServed]
    /\ cleanup = [r \in Reqs |-> NoCleanup]
    /\ crashed = FALSE
    /\ handoffs = [o \in Objs |-> 0]
    /\ reported = [o \in Objs |-> 0]
    /\ staged = [p \in UploadPaths |-> << >>]

\* The handler of request r returns: its locals are dropped.
Middleware_return(r) ==
    /\ pc' = [pc EXCEPT ![r] = "done"]
    /\ response' = [response EXCEPT ![r] = NoResponse]
    /\ combine' = [combine EXCEPT ![r] = NoCombine]
    /\ served' = [served EXCEPT ![r] = NotServed]
    /\ UNCHANGED << req, f >>

\* A nil *file is dereferenced while a.lock is held: net/http recovers the
\* panic and drops the connection; no Unlock is deferred, a.lock stays
\* locked.
Middleware_panic(r) ==
    /\ Send(r, aborted)
    /\ Middleware_return(r)
    /\ UNCHANGED << lock, files, handoffs, reported >>

\* An error answered under a.lock: the response res, a.lock.Unlock(), return.
Middleware_fail(r, res, call) ==
    /\ SendFault(r, res, call)
    /\ Middleware_return(r)
    /\ lock' = 0
    /\ UNCHANGED << files, handoffs, reported >>

\* A request arrives with bad headers or an empty body: HTTP 400.
Middleware_badRequest(r) ==
    /\ Arrives(r)
    /\ \E q \in Requests_002 :
          /\ Middleware_validate(q) # ""
          /\ SendInvalid(r, badRequest(Middleware_validate(q)), q)
    /\ pc' = [pc EXCEPT ![r] = "done"]
    /\ Arrived(r)
    /\ UNCHANGED << KeepCompletedChunks, lock, data, files, chunksDir, completedDir,
                    req, f, response, combine, served, cleanup, crashed, handoffs,
                    reported, staged >>

\* A request q that passes the checks, up to a.lock.Lock().
Middleware_ReadAll(r) ==
    /\ Arrives(r)
    /\ \E q \in Requests_002 :
          /\ Middleware_validate(q) = ""
          /\ req' = [req EXCEPT ![r] = parsed(q)]
    /\ Goto(r, "a.lock.Lock")
    /\ Arrived(r)
    /\ UNCHANGED << KeepCompletedChunks, lock, data, files, chunksDir, completedDir,
                    f, response, combine, served, cleanup, crashed, handoffs,
                    reported, staged >>

\* a.lock.Lock(), part_002 162: the request waits while another holds a.lock.
Middleware_Lock(r) ==
    /\ ~crashed
    /\ pc[r] = "a.lock.Lock"
    /\ lock = 0
    /\ lock' = r
    /\ Goto(r, "exists")
    /\ UNCHANGED << KeepCompletedChunks, data, files, chunksDir, completedDir, req,
                    arrival, f, response, combine, served, cleanup, crashed, handoffs,
                    reported, staged >>

\* addFileIfNotExists: if !a.exists(fileID), the new *file is stored.
addFileIfNotExists_exists(r) ==
    /\ ~crashed
    /\ pc[r] = "exists"
    /\ Goto(r, IF data[req[r].fileID] = Nil THEN "WriteFile" ELSE "expectedTotal")
    /\ UNCHANGED << KeepCompletedChunks, lock, chunksDir, completedDir, req, arrival,
                    f, response, combine, served, cleanup, crashed, staged >>
    /\ IF data[req[r].fileID] = Nil
       THEN /\ data' = [data EXCEPT ![req[r].fileID] = NewFile]
            /\ Collect([files EXCEPT
                          ![NewFile] = [chunkSet |-> {},
                                        expectedTotal |-> req[r].chunkExpectedTotal,
                                        lock |-> 0]])
       ELSE UNCHANGED << data, files, handoffs, reported >>

\* addFileIfNotExists: else if a.data[fileID].expectedTotal != total, on a
\* second look at the map; ErrChunkQuantityChange is answered with HTTP 400.
addFileIfNotExists_expectedTotal(r) ==
    /\ ~crashed
    /\ pc[r] = "expectedTotal"
    /\ UNCHANGED << KeepCompletedChunks, data, chunksDir, completedDir, arrival,
                    cleanup, crashed, staged >>
    /\ IF data[req[r].fileID] = Nil
       THEN Middleware_panic(r)
       ELSE IF files[data[req[r].fileID]].expectedTotal # req[r].chunkExpectedTotal
            THEN /\ Send(r, badRequest("cannot change expected number of chunks"))
                 /\ Middleware_return(r)
                 /\ lock' = 0
                 /\ UNCHANGED << files, handoffs, reported >>
            ELSE /\ Goto(r, "WriteFile")
                 /\ UNCHANGED << lock, files, req, f, response, combine, served,
                                 handoffs, reported >>

\* tracker.go add: ioutil.WriteFile replaces the chunk file.
tracker_add_WriteFile(r) ==
    /\ ~crashed
    /\ pc[r] = "WriteFile"
    /\ chunksDir' = [chunksDir EXCEPT
                       ![chunkFilePath(req[r].fileID, req[r].chunkSequenceID)] =
                           [present |-> TRUE, data |-> req[r].chunkData]]
    /\ staged' = [staged EXCEPT
                    ![chunkFilePath(req[r].fileID, req[r].chunkSequenceID)] =
                        req[r].chunkData]
    /\ cleanup' = [g \in Reqs |->
                     IF cleanup[g].pc # "none" /\ cleanup[g].fileID = req[r].fileID
                     THEN [cleanup[g] EXCEPT
                             !.written = @ \cup { [chunkID |-> req[r].chunkSequenceID,
                                                   request |-> r] }]
                     ELSE cleanup[g]]
    /\ Goto(r, "chunkSet")
    /\ UNCHANGED << KeepCompletedChunks, lock, arrival, data, files, completedDir, req,
                    f, response, combine, served, crashed, handoffs, reported >>

\* tracker.go add: ioutil.WriteFile returns an error: HTTP 500.
tracker_add_WriteFileFails(r) ==
    /\ ~crashed
    /\ pc[r] = "WriteFile"
    /\ UNCHANGED << KeepCompletedChunks, arrival, data, chunksDir, completedDir,
                    staged, cleanup, crashed >>
    /\ Middleware_fail(r, internalServerError, "WriteFile")

\* tracker.go add: a.data[fileID].chunkSet[chunkID] = nil
tracker_add_chunkSet(r) ==
    /\ ~crashed
    /\ pc[r] = "chunkSet"
    /\ UNCHANGED << KeepCompletedChunks, arrival, data, chunksDir, completedDir, staged,
                    cleanup, crashed >>
    /\ IF data[req[r].fileID] = Nil
       THEN Middleware_panic(r)
       ELSE /\ Goto(r, "isComplete")
            /\ UNCHANGED << lock, req, f, response, combine, served, handoffs, reported >>
            /\ files' = [files EXCEPT
                           ![data[req[r].fileID]].chunkSet =
                               chunkSetAdd(@, req[r].chunkSequenceID)]

\* part_002 174, a.isComplete(fileID): the left operand, a.countChunks(fileID)
Middleware_isComplete_countChunks(r) ==
    /\ ~crashed
    /\ pc[r] = "isComplete"
    /\ UNCHANGED << KeepCompletedChunks, arrival, data, chunksDir, completedDir, staged,
                    cleanup, crashed >>
    /\ IF data[req[r].fileID] = Nil
       THEN Middleware_panic(r)
       ELSE /\ combine' = [combine EXCEPT ![r].n = countChunks(req[r].fileID)]
            /\ Goto(r, "isComplete2")
            /\ UNCHANGED << lock, files, req, f, response, served, handoffs, reported >>

\* part_002 174: the right operand, a.totalChunks(fileID), and the comparison.
Middleware_isComplete_totalChunks(r) ==
    /\ ~crashed
    /\ pc[r] = "isComplete2"
    /\ UNCHANGED << KeepCompletedChunks, arrival, data, chunksDir, completedDir, staged,
                    cleanup, crashed >>
    /\ IF data[req[r].fileID] = Nil
       THEN Middleware_panic(r)
       ELSE /\ Goto(r, IF combine[r].n = totalChunks(req[r].fileID)
                       THEN "combineChunks" ELSE "else")
            /\ UNCHANGED << lock, files, req, f, response, combine, served, handoffs,
                            reported >>

\* part_002 227: response.CurrentChunks = a.countChunks(fileID)
Middleware_else_countChunks(r) ==
    /\ ~crashed
    /\ pc[r] = "else"
    /\ UNCHANGED << KeepCompletedChunks, arrival, data, chunksDir, completedDir, staged,
                    cleanup, crashed >>
    /\ IF data[req[r].fileID] = Nil
       THEN Middleware_panic(r)
       ELSE /\ response' = [response EXCEPT ![r].have = countChunks(req[r].fileID)]
            /\ Goto(r, "else2")
            /\ UNCHANGED << lock, files, req, f, combine, served, handoffs, reported >>

\* part_002 228-232: response.ExpectedChunks = a.totalChunks(fileID),
\* a.lock.Unlock(), and the progress response is written.
Middleware_else_totalChunks(r) ==
    /\ ~crashed
    /\ pc[r] = "else2"
    /\ UNCHANGED << KeepCompletedChunks, arrival, data, chunksDir, completedDir, staged,
                    cleanup, crashed >>
    /\ IF data[req[r].fileID] = Nil
       THEN Middleware_panic(r)
       ELSE /\ Send(r, progress([response[r] EXCEPT
                                   !.want = totalChunks(req[r].fileID)]))
            /\ Middleware_return(r)
            /\ lock' = 0
            /\ UNCHANGED << files, handoffs, reported >>

\* tracker.go combineChunks 72, if !a.isComplete(fileID): the left operand
tracker_combineChunks_countChunks(r) ==
    /\ ~crashed
    /\ pc[r] = "combineChunks"
    /\ UNCHANGED << KeepCompletedChunks, arrival, data, chunksDir, completedDir, staged,
                    cleanup, crashed >>
    /\ IF data[req[r].fileID] = Nil
       THEN Middleware_panic(r)
       ELSE /\ combine' = [combine EXCEPT ![r].n = countChunks(req[r].fileID)]
            /\ Goto(r, "combineChunks2")
            /\ UNCHANGED << lock, files, req, f, response, served, handoffs, reported >>

\* tracker.go combineChunks 72-74: the right operand.  Not complete:
\* combineChunks returns ("", nil) and Middleware goes on with that path.
tracker_combineChunks_totalChunks(r) ==
    /\ ~crashed
    /\ pc[r] = "combineChunks2"
    /\ UNCHANGED << KeepCompletedChunks, arrival, data, chunksDir, completedDir, staged,
                    cleanup, crashed >>
    /\ IF data[req[r].fileID] = Nil
       THEN Middleware_panic(r)
       ELSE /\ Goto(r, IF combine[r].n = totalChunks(req[r].fileID)
                       THEN "Create" ELSE "countChunks")
            /\ UNCHANGED << lock, files, req, f, response, combine, served, handoffs,
                            reported >>

\* tracker.go combineChunks 75-81: os.Create(completedFilePath) leaves the
\* file empty; totalChunks := a.totalChunks(fileID).
tracker_combineChunks_Create(r) ==
    /\ ~crashed
    /\ pc[r] = "Create"
    /\ completedDir' = [completedDir EXCEPT
                          ![req[r].fileID] = [exists |-> TRUE, bytes |-> << >>]]
    /\ UNCHANGED << KeepCompletedChunks, arrival, data, chunksDir, staged, cleanup,
                    crashed >>
    /\ IF data[req[r].fileID] = Nil
       THEN Middleware_panic(r)
       ELSE /\ combine' = [combine EXCEPT
                             ![r].totalChunks = totalChunks(req[r].fileID),
                             ![r].i = 0]
            /\ Goto(r, "ReadFile")
            /\ UNCHANGED << lock, files, req, f, response, served, handoffs, reported >>

\* tracker.go combineChunks 76-79: os.Create returns an error: HTTP 500.
tracker_combineChunks_CreateFails(r) ==
    /\ ~crashed
    /\ pc[r] = "Create"
    /\ UNCHANGED << KeepCompletedChunks, arrival, data, chunksDir, completedDir,
                    staged, cleanup, crashed >>
    /\ Middleware_fail(r, internalServerError, "Create")

\* tracker.go combineChunks 82-98, one turn of the loop: os.ReadFile of chunk
\* i, f.Write of what was read at the end of the file.  After the last turn
\* the cleanup goroutine is started.
tracker_combineChunks_ReadFile(r) ==
    /\ ~crashed
    /\ pc[r] = "ReadFile"
    /\ chunksDir[chunkFilePath(req[r].fileID, loopIndex(r))].present
    /\ completedDir' =
         [completedDir EXCEPT
            ![req[r].fileID].bytes =
                @ \o chunksDir[chunkFilePath(req[r].fileID, loopIndex(r))].data]
    /\ combine' = [combine EXCEPT ![r].i = @ + 1]
    /\ IF combine[r].i + 1 < combine[r].totalChunks
       THEN /\ Goto(r, "ReadFile")
            /\ cleanup' = cleanup
       ELSE /\ Goto(r, "countChunks")
            /\ cleanup' = [cleanup EXCEPT ![r] = startCleanup(r)]
    /\ UNCHANGED << KeepCompletedChunks, lock, arrival, data, files, chunksDir, staged,
                    req, f, response, served, crashed, handoffs, reported >>

\* tracker.go combineChunks 84-87: os.ReadFile finds no chunk file, HTTP 500.
tracker_combineChunks_ReadFileMissing(r) ==
    /\ ~crashed
    /\ pc[r] = "ReadFile"
    /\ ~chunksDir[chunkFilePath(req[r].fileID, loopIndex(r))].present
    /\ UNCHANGED << KeepCompletedChunks, arrival, data, chunksDir, completedDir,
                    staged, cleanup, crashed >>
    /\ Send(r, internalServerError)
    /\ Middleware_return(r)
    /\ lock' = 0
    /\ UNCHANGED << files, handoffs, reported >>

\* tracker.go combineChunks 84-87: os.ReadFile fails on a chunk file that is
\* there, HTTP 500.
tracker_combineChunks_ReadFileFails(r) ==
    /\ ~crashed
    /\ pc[r] = "ReadFile"
    /\ chunksDir[chunkFilePath(req[r].fileID, loopIndex(r))].present
    /\ UNCHANGED << KeepCompletedChunks, arrival, data, chunksDir, completedDir,
                    staged, cleanup, crashed >>
    /\ Middleware_fail(r, internalServerError, "ReadFile")

\* part_002 181: response.CurrentChunks = a.countChunks(fileID), after
\* combineChunks has returned.
Middleware_countChunks(r) ==
    /\ ~crashed
    /\ pc[r] = "countChunks"
    /\ UNCHANGED << KeepCompletedChunks, arrival, data, chunksDir, completedDir, staged,
                    cleanup, crashed >>
    /\ IF data[req[r].fileID] = Nil
       THEN Middleware_panic(r)
       ELSE /\ response' = [response EXCEPT ![r].have = countChunks(req[r].fileID)]
            /\ Goto(r, "totalChunks")
            /\ UNCHANGED << lock, files, req, f, combine, served, handoffs, reported >>

\* part_002 182-183: response.ExpectedChunks = a.totalChunks(fileID), then
\* a.lock.Unlock().
Middleware_totalChunks(r) ==
    /\ ~crashed
    /\ pc[r] = "totalChunks"
    /\ UNCHANGED << KeepCompletedChunks, arrival, data, chunksDir, completedDir, staged,
                    cleanup, crashed >>
    /\ IF data[req[r].fileID] = Nil
       THEN Middleware_panic(r)
       ELSE /\ response' = [response EXCEPT ![r].want = totalChunks(req[r].fileID)]
            /\ lock' = 0
            /\ Goto(r, "ServeHTTP")
            /\ UNCHANGED << files, req, f, combine, served, handoffs, reported >>

\* The path combineChunks returned: "" when the upload was not complete.
completedFilePath(r) == IF combine[r].i = 0 THEN << >> ELSE req[r].fileID

\* part_002 185-218: getFileSize and os.Open of the completed file, then
\* h.ServeHTTP(nil, &req): the handler starts and reads the request body.
\* No lock is held.
Middleware_ServeHTTP(r) ==
    /\ ~crashed
    /\ pc[r] = "ServeHTTP"
    /\ completedFilePath(r) # << >>
    /\ served' = [served EXCEPT
                    ![r] = [called |-> TRUE,
                            body |-> completedDir[completedFilePath(r)].bytes]]
    /\ Goto(r, "Encode")
    /\ UNCHANGED << KeepCompletedChunks, lock, arrival, data, files, chunksDir,
                    completedDir, staged, req, f, response, combine, cleanup, crashed,
                    handoffs, reported >>

\* part_002 191-195: getFileSize("") returns an error, HTTP 500.
Middleware_getFileSizeFails(r) ==
    /\ ~crashed
    /\ pc[r] = "ServeHTTP"
    /\ completedFilePath(r) = << >>
    /\ Send(r, internalServerError)
    /\ Middleware_return(r)
    /\ UNCHANGED << KeepCompletedChunks, lock, arrival, data, files, chunksDir,
                    completedDir, staged, cleanup, crashed, handoffs, reported >>

\* part_002 220-232: the handler returns, having called RejectFile or not,
\* and the final progress update is sent.
Middleware_Encode(r) ==
    /\ ~crashed
    /\ pc[r] = "Encode"
    /\ \E verdict \in Rejections :
          SendServed(r, rejected(response[r], verdict), verdict)
    /\ Middleware_return(r)
    /\ UNCHANGED << KeepCompletedChunks, lock, arrival, data, files, chunksDir,
                    completedDir, staged, cleanup, crashed, handoffs, reported >>

\* The steps of a handler that read or write a.data or a chunkSet.
MapAccess ==
    { "exists", "expectedTotal", "chunkSet", "isComplete", "isComplete2", "else",
      "else2", "combineChunks", "combineChunks2", "Create", "countChunks",
      "totalChunks" }

\* The cleanup goroutine writes a map, holding no lock, while a handler that
\* holds a.lock reads or writes the same map: a data race.  The runtime may
\* detect it and end the process ("fatal error: concurrent map read and map
\* write"); when it does not, the accesses happen in one order or the other.
throw(g) ==
    /\ ~crashed
    /\ Quiet
    /\ cleanup[g].pc \in { "chunkSet", "Delete" }
    /\ lock # 0
    /\ pc[lock] \in MapAccess
    /\ req[lock].fileID = cleanup[g].fileID \/ cleanup[g].pc = "Delete"
    /\ crashed' = TRUE
    /\ UNCHANGED << KeepCompletedChunks, lock, arrival, data, files, chunksDir,
                    completedDir, staged, pc, req, f, response, combine, served,
                    cleanup, handoffs, reported >>

\* The Middleware of part_002; the goroutine's a.delete (tracker.go 39-50) is
\* the code of part_000's delete on the plain map.
GlobalLockNext ==
    \E r \in Reqs :
        \/ Middleware_badRequest(r)
        \/ ReadBodyFails(r)
        \/ Middleware_ReadAll(r)
        \/ Middleware_Lock(r)
        \/ addFileIfNotExists_exists(r)
        \/ addFileIfNotExists_expectedTotal(r)
        \/ tracker_add_WriteFile(r)
        \/ tracker_add_WriteFileFails(r)
        \/ tracker_add_chunkSet(r)
        \/ Middleware_isComplete_countChunks(r)
        \/ Middleware_isComplete_totalChunks(r)
        \/ Middleware_else_countChunks(r)
        \/ Middleware_else_totalChunks(r)
        \/ tracker_combineChunks_countChunks(r)
        \/ tracker_combineChunks_totalChunks(r)
        \/ tracker_combineChunks_Create(r)
        \/ tracker_combineChunks_CreateFails(r)
        \/ tracker_combineChunks_ReadFile(r)
        \/ tracker_combineChunks_ReadFileMissing(r)
        \/ tracker_combineChunks_ReadFileFails(r)
        \/ Middleware_countChunks(r)
        \/ Middleware_totalChunks(r)
        \/ Middleware_ServeHTTP(r)
        \/ Middleware_getFileSizeFails(r)
        \/ Middleware_Encode(r)
        \/ delete_Remove(r)
        \/ delete_RemoveFails(r)
        \/ delete_chunkSet(r)
        \/ delete_len(r)
        \/ delete_Delete(r)
        \/ throw(r)

GlobalLockSpec == GlobalLockInit /\ [][GlobalLockNext]_vars

----------------------------------------------------------------------------
\* The Middleware of src/assemble.go when no storage call fails, and with
\* the scheduling of the Go runtime: a handler or a cleanup goroutine that
\* can take a step is not kept from taking it for ever.  Clients are not
\* required to send anything.

\* part_000 delete: os.Remove finds no chunk file and returns the error.
delete_RemoveMissing(g) ==
    /\ cleanup[g].pc = "Remove"
    /\ ~chunksDir[chunkFilePath(cleanup[g].fileID, cleanup[g].i)].present
    /\ delete_RemoveFails(g)

\* A request arrives.
FaultFreeArrival(r) ==
    \/ BadRequest(r)
    \/ getFileOrAdd_Load(r)

\* A step of the handler of request r.
FaultFreeHandler(r) ==
    \/ getFileOrAdd_Store(r)
    \/ Lock(r)
    \/ QuantityChange(r)
    \/ add_WriteFile(r)
    \/ add_chunkSet(r)
    \/ response_countChunks(r)
    \/ response_totalChunks(r)
    \/ isComplete_countChunks(r)
    \/ isComplete_totalChunks(r)
    \/ combineChunks_countChunks(r)
    \/ combineChunks_totalChunks(r)
    \/ combineChunks_Create(r)
    \/ combineChunks_ReadFile(r)
    \/ combineChunks_ReadFileMissing(r)
    \/ ServeHTTP(r)
    \/ Encode(r)

\* A step of the cleanup goroutine started by request g.
FaultFreeCleanup(g) ==
    \/ delete_Remove(g)
    \/ delete_RemoveMissing(g)
    \/ delete_chunkSet(g)
    \/ delete_len(g)
    \/ delete_Delete(g)

FaultFreeNext ==
    \E r \in Reqs :
        \/ FaultFreeArrival(r)
        \/ FaultFreeHandler(r)
        \/ FaultFreeCleanup(r)

FaultFreeSpec ==
    /\ Init
    /\ [][FaultFreeNext]_vars
    /\ \A r \in Reqs : WF_vars(FaultFreeHandler(r)) /\ WF_vars(FaultFreeCleanup(r))

----------------------------------------------------------------------------
\* The start-call design, src/unnamed/part_001: UploadStartHandler issues a
\* numeric upload ID and ChunksMiddleware takes chunks for an ID that was
\* issued.  data is tracker.uploads, a sync.Map from upload ID to
\* *activeUpload; f is currentUpload; expectedTotal is info.TotalChunks.
\* The tracker's methods (createUpload, addChunk, combineChunks) are each
\* one step.

\* The upload IDs createUpload can issue.
UploadNumbers == 1 .. MaxRequests

\* What a start call's body decodes to: decoded is FALSE when it is no JSON.
StartBodies ==
    [decoded : BOOLEAN, TotalChunks : -1 .. MaxTotal]

\* What a client sends to ChunksMiddleware.
ChunkRequests ==
    [uploadID : IntHeaders(MaxRequests), chunkID : ChunkSequenceHeaders,
     body : RequestBodies]

\* What the tracker and a handler keep of a request: for a start call the
\* ID it was given and info.TotalChunks, for a chunk its headers and body.
NoUpload ==
    [start |-> FALSE, uploadID |-> 0, TotalChunks |-> 0, fileID |-> << >>,
     chunkID |-> << >>, chunkSequenceID |-> 0, chunkData |-> << >>]

\* The headers and body of chunk request q, as the history keeps them.
chunkHeaders(q) ==
    [fileID |-> q.uploadID, chunkTotal |-> << >>, chunkSequence |-> q.chunkID,
     body |-> q.body]

\* The chunk file of an upload: one per upload ID and sequence number.
uploadChunkPath(uploadID, chunkID) == << uploadID, chunkID >>

StartInit ==
    /\ KeepCompletedChunks = FALSE
    /\ lock = 0
    /\ data = [n \in UploadNumbers |-> Nil]
    /\ files = [o \in Objs |-> FreeFile]
    /\ chunksDir = [p \in UploadNumbers \X SeqNums |-> NoChunkFile]
    /\ completedDir = [n \in UploadNumbers |-> NoCompletedFile]
    /\ pc = [r \in Reqs |-> "idle"]
    /\ req = [r \in Reqs |-> NoUpload]
    /\ arrival = [r \in Reqs |-> "none"]
    /\ f = [r \in Reqs |-> Nil]
    /\ response = [r \in Reqs |-> NoResponse]
    /\ event = NoEvent
    /\ combine = [r \in Reqs |-> NoCombine]
    /\ served = [r \in Reqs |-> NotServed]
    /\ cleanup = [r \in Reqs |-> NoCleanup]
    /\ crashed = FALSE
    /\ handoffs = [o \in Objs |-> 0]
    /\ reported = [o \in Objs |-> 0]
    /\ staged = [p \in UploadNumbers \X SeqNums |-> << >>]

\* The upload IDs issued so far: req keeps what each start call was given.
Issued == { req[x].uploadID : x \in { y \in Reqs : req[y].start } }

\* a.data.uploads.Load(uploadID)
uploadsLoad(uploadID) == IF uploadID \in DOMAIN data THEN data[uploadID] ELSE Nil

\* UploadStartHandler 115-122: the body is no JSON, or info.TotalChunks == 0.
UploadStartHandler_badRequest(r) ==
    /\ Arrives(r)
    /\ \E info \in StartBodies :
          /\ ~info.decoded \/ info.TotalChunks = 0
          /\ Send(r, badRequest(IF info.decoded
                                THEN "invalid number of expected chunks"
                                ELSE "invalid character"))
    /\ pc' = [pc EXCEPT ![r] = "done"]
    /\ Arrived(r)
    /\ UNCHANGED << KeepCompletedChunks, lock, data, files, chunksDir, completedDir,
                    req, f, response, combine, served, cleanup, crashed, handoffs,
                    reported, staged >>

\* UploadStartHandler 123-126: a.data.createUpload(info) stores a new
\* *activeUpload under an ID not issued before, and the ID is answered.
UploadStartHandler_createUpload(r) ==
    /\ Arrives(r)
    /\ pc' = [pc EXCEPT ![r] = "done"]
    /\ Arrived(r)
    /\ UNCHANGED << KeepCompletedChunks, lock, chunksDir, completedDir, f, response,
                    combine, served, cleanup, crashed, staged >>
    /\ \E info \in StartBodies :
          /\ info.decoded /\ info.TotalChunks # 0
          /\ LET uploadID == Cardinality(Issued) + 1
             IN  /\ req' = [req EXCEPT
                              ![r] = [NoUpload EXCEPT
                                        !.start = TRUE,
                                        !.uploadID = uploadID,
                                        !.TotalChunks = info.TotalChunks]]
                 /\ data' = [data EXCEPT ![uploadID] = NewFile]
                 /\ Send(r, [NoResponse EXCEPT !.kind = "id", !.status = 200])
                 /\ Collect([files EXCEPT
                               ![NewFile] = [chunkSet |-> {},
                                             expectedTotal |-> info.TotalChunks,
                                             lock |-> 0]])

\* A getActiveUpload that knows no unknown upload: for an ID that parses and
\* was not found it stores a new *activeUpload, as getFileOrAdd does.
getActiveUpload_OrAdd(r) ==
    /\ Arrives(r)
    /\ \E q \in ChunkRequests :
          /\ ParseInt(q.uploadID).ok
          /\ ParseInt(q.uploadID).val \in UploadNumbers
          /\ uploadsLoad(ParseInt(q.uploadID).val) = Nil
          /\ req' = [req EXCEPT
                       ![r] = [NoUpload EXCEPT
                                 !.fileID = q.uploadID,
                                 !.uploadID = ParseInt(q.uploadID).val,
                                 !.chunkID = q.chunkID,
                                 !.chunkData = q.body]]
          /\ data' = [data EXCEPT ![ParseInt(q.uploadID).val] = NewFile]
    /\ f' = [f EXCEPT ![r] = NewFile]
    /\ Goto(r, "Lock")
    /\ Arrived(r)
    /\ UNCHANGED << KeepCompletedChunks, lock, chunksDir, completedDir, response,
                    combine, served, cleanup, crashed, staged >>
    /\ Collect([files EXCEPT
                  ![NewFile] = [chunkSet |-> {}, expectedTotal |-> MaxTotal,
                                lock |-> 0]])

\* ChunksMiddleware 136-140: getActiveUpload returns an error, because the
\* upload ID header is no integer or because uploads.Load finds nothing:
\* HTTP 400, nothing else is done.
getActiveUpload_fails(r) ==
    /\ Arrives(r)
    /\ \E q \in ChunkRequests :
          /\ ~ParseInt(q.uploadID).ok \/ uploadsLoad(ParseInt(q.uploadID).val) = Nil
          /\ SendInvalid(r, badRequest(IF ParseInt(q.uploadID).ok
                                       THEN "upload ID not found"
                                       ELSE "invalid syntax"),
                         chunkHeaders(q))
    /\ pc' = [pc EXCEPT ![r] = "done"]
    /\ Arrived(r)
    /\ UNCHANGED << KeepCompletedChunks, lock, data, files, chunksDir, completedDir,
                    req, f, response, combine, served, cleanup, crashed, handoffs,
                    reported, staged >>

\* ChunksMiddleware 136: getActiveUpload finds the *activeUpload.
getActiveUpload(r) ==
    /\ Arrives(r)
    /\ \E q \in ChunkRequests :
          /\ ParseInt(q.uploadID).ok
          /\ uploadsLoad(ParseInt(q.uploadID).val) # Nil
          /\ req' = [req EXCEPT
                       ![r] = [NoUpload EXCEPT
                                 !.fileID = q.uploadID,
                                 !.uploadID = ParseInt(q.uploadID).val,
                                 !.chunkID = q.chunkID,
                                 !.chunkData = q.body]]
          /\ f' = [f EXCEPT ![r] = uploadsLoad(ParseInt(q.uploadID).val)]
    /\ Goto(r, "Lock")
    /\ Arrived(r)
    /\ UNCHANGED << KeepCompletedChunks, lock, data, files, chunksDir, completedDir,
                    response, combine, served, cleanup, crashed, handoffs, reported,
                    staged >>

\* ChunksMiddleware 142-143: currentUpload.lock.Lock(); defer Unlock()
ChunksMiddleware_Lock(r) ==
    /\ ~crashed
    /\ pc[r] = "Lock"
    /\ files[f[r]].lock = 0
    /\ files' = [files EXCEPT ![f[r]].lock = r]
    /\ Goto(r, "getChunkID")
    /\ UNCHANGED << KeepCompletedChunks, lock, arrival, data, chunksDir, completedDir,
                    req, f, response, combine, served, cleanup, crashed, handoffs,
                    reported, staged >>

\* ChunksMiddleware 145-162: the error the checks made under the lock answer
\* with, "" when they pass.
ChunksMiddleware_validate(chunkID, body, TotalChunks) ==
    IF ~ParseInt(chunkID).ok THEN "must be an integer"
    ELSE IF ParseInt(chunkID).val < 0 THEN "cannot be negative"
    ELSE IF ParseInt(chunkID).val >= TotalChunks THEN "invalid chunk ID"
    ELSE IF Len(body) = 0 THEN "chunk cannot be empty"
    ELSE ""

\* ChunksMiddleware 145-162: a check fails, HTTP 400 and the deferred Unlock.
ChunksMiddleware_badRequest(r) ==
    /\ ~crashed
    /\ pc[r] = "getChunkID"
    /\ ChunksMiddleware_validate(req[r].chunkID, req[r].chunkData,
                                 files[f[r]].expectedTotal) # ""
    /\ UNCHANGED << KeepCompletedChunks, lock, arrival, data, chunksDir, completedDir,
                    staged, cleanup, crashed >>
    /\ Return(r, files,
              badRequest(ChunksMiddleware_validate(req[r].chunkID, req[r].chunkData,
                                                   files[f[r]].expectedTotal)))

\* ChunksMiddleware 154-158: ioutil.ReadAll fails, HTTP 500.
ChunksMiddleware_ReadAllFails(r) ==
    /\ ~crashed
    /\ pc[r] = "getChunkID"
    /\ ParseInt(req[r].chunkID).ok
    /\ ParseInt(req[r].chunkID).val \in 0 .. (files[f[r]].expectedTotal - 1)
    /\ UNCHANGED << KeepCompletedChunks, lock, arrival, data, chunksDir, completedDir,
                    staged, cleanup, crashed >>
    /\ SendFault(r, internalServerError, "ReadAll")
    /\ Unlock(r, files)

\* ChunksMiddleware 163: a.data.addChunk(currentUpload, chunkSequenceID,
\* chunkData) stages the chunk and records its sequence number.
ChunksMiddleware_addChunk(r) ==
    /\ ~crashed
    /\ pc[r] = "getChunkID"
    /\ ChunksMiddleware_validate(req[r].chunkID, req[r].chunkData,
                                 files[f[r]].expectedTotal) = ""
    /\ LET chunkSequenceID == ParseInt(req[r].chunkID).val
       IN  /\ chunksDir' = [chunksDir EXCEPT
                              ![uploadChunkPath(req[r].uploadID, chunkSequenceID)] =
                                  [present |-> TRUE, data |-> req[r].chunkData]]
           /\ staged' = [staged EXCEPT
                           ![uploadChunkPath(req[r].uploadID, chunkSequenceID)] =
                               req[r].chunkData]
           /\ files' = [files EXCEPT
                          ![f[r]].chunkSet = chunkSetAdd(@, chunkSequenceID)]
           /\ req' = [req EXCEPT ![r].chunkSequenceID = chunkSequenceID]
    /\ Goto(r, "countChunks")
    /\ UNCHANGED << KeepCompletedChunks, lock, arrival, data, completedDir, f, response,
                    combine, served, cleanup, crashed, handoffs, reported >>

\* ChunksMiddleware 163-166: addChunk returns an error, HTTP 500.
ChunksMiddleware_addChunkFails(r) ==
    /\ ~crashed
    /\ pc[r] = "getChunkID"
    /\ ChunksMiddleware_validate(req[r].chunkID, req[r].chunkData,
                                 files[f[r]].expectedTotal) = ""
    /\ UNCHANGED << KeepCompletedChunks, lock, arrival, data, chunksDir, completedDir,
                    staged, cleanup, crashed >>
    /\ SendFault(r, internalServerError, "addChunk")
    /\ Unlock(r, files)

\* ChunksMiddleware 167-171 and 220-221: the progress response from
\* currentUpload's counts; when the upload is not complete it is sent.
ChunksMiddleware_response(r) ==
    /\ ~crashed
    /\ pc[r] = "countChunks"
    /\ UNCHANGED << KeepCompletedChunks, lock, arrival, data, chunksDir, completedDir,
                    staged, cleanup, crashed >>
    /\ LET res == [response[r] EXCEPT
                     !.have = Cardinality(files[f[r]].chunkSet),
                     !.want = files[f[r]].expectedTotal]
       IN  IF res.have = res.want
           THEN /\ response' = [response EXCEPT ![r] = res]
                /\ Goto(r, "combineChunks")
                /\ UNCHANGED << files, req, f, combine, served, handoffs, reported >>
           ELSE Return(r, files, progress(res))

RECURSIVE ConcatChunks(_, _)
\* The staged chunks 0 .. n-1 of upload uploadID, one after the other.
ConcatChunks(uploadID, n) ==
    IF n = 0 THEN << >>
    ELSE ConcatChunks(uploadID, n - 1)
             \o chunksDir[uploadChunkPath(uploadID, n - 1)].data

\* ChunksMiddleware 172: a.data.combineChunks(currentUpload) writes the
\* completed file from the staged chunks in order, deletes the staged chunks
\* and takes the upload out of uploads.
ChunksMiddleware_combineChunks(r) ==
    /\ ~crashed
    /\ pc[r] = "combineChunks"
    /\ completedDir' =
         [completedDir EXCEPT
            ![req[r].uploadID] =
                [exists |-> TRUE,
                 bytes |-> ConcatChunks(req[r].uploadID, files[f[r]].expectedTotal)]]
    /\ chunksDir' = [p \in DOMAIN chunksDir |->
                       IF p[1] = req[r].uploadID THEN NoChunkFile ELSE chunksDir[p]]
    /\ data' = [data EXCEPT ![req[r].uploadID] = Nil]
    /\ Goto(r, "ServeHTTP")
    /\ UNCHANGED << KeepCompletedChunks, lock, arrival, files, staged, req, f, response,
                    combine, served, cleanup, crashed, handoffs, reported >>

\* ChunksMiddleware 172-176: combineChunks returns an error, HTTP 500.
ChunksMiddleware_combineChunksFails(r) ==
    /\ ~crashed
    /\ pc[r] = "combineChunks"
    /\ UNCHANGED << KeepCompletedChunks, lock, arrival, data, chunksDir, completedDir,
                    staged, cleanup, crashed >>
    /\ SendFault(r, internalServerError, "combineChunks")
    /\ Unlock(r, files)

\* ChunksMiddleware 178-211: os.Open(completedFilePath) and
\* h.ServeHTTP(nil, &req), the deferred Unlock still pending.
ChunksMiddleware_ServeHTTP(r) ==
    /\ ~crashed
    /\ pc[r] = "ServeHTTP"
    /\ served' = [served EXCEPT
                    ![r] = [called |-> TRUE,
                            body |-> completedDir[req[r].uploadID].bytes]]
    /\ handoffs' = [handoffs EXCEPT ![f[r]] = countHandoff(@)]
    /\ Goto(r, "Encode")
    /\ UNCHANGED << KeepCompletedChunks, lock, arrival, data, files, chunksDir,
                    completedDir, staged, req, f, response, combine, cleanup, crashed,
                    reported >>

\* ChunksMiddleware 213-221: the rejection, the final progress update, and
\* the deferred Unlock.
ChunksMiddleware_Encode(r) ==
    /\ ~crashed
    /\ pc[r] = "Encode"
    /\ UNCHANGED << KeepCompletedChunks, lock, arrival, data, chunksDir, completedDir,
                    staged, cleanup, crashed >>
    /\ \E verdict \in Rejections :
          SendServed(r, rejected(response[r], verdict), verdict)
    /\ Unlock(r, files)

StartNext ==
    \E r \in Reqs :
        \/ UploadStartHandler_badRequest(r)
        \/ UploadStartHandler_createUpload(r)
        \/ getActiveUpload_fails(r)
        \/ getActiveUpload(r)
        \/ ChunksMiddleware_Lock(r)
        \/ ChunksMiddleware_badRequest(r)
        \/ ChunksMiddleware_ReadAllFails(r)
        \/ ChunksMiddleware_addChunk(r)
        \/ ChunksMiddleware_addChunkFails(r)
        \/ ChunksMiddleware_response(r)
        \/ ChunksMiddleware_combineChunks(r)
        \/ ChunksMiddleware_combineChunksFails(r)
        \/ ChunksMiddleware_ServeHTTP(r)
        \/ ChunksMiddleware_Encode(r)

StartSpec == StartInit /\ [][StartNext]_vars

----------------------------------------------------------------------------
\* The chunk files by name: what add writes and what the cleanup goroutine
\* removes, for file IDs with digits and hyphens in them and for sequence
\* numbers of one and two digits.  Nothing but ChunksDir is looked at: the
\* request writes the last chunk of its upload, and the cleanup of that
\* upload is started.

\* File IDs that pass getFileID: one or two of the characters a, 1, -.
PathIDs == UNION { [1 .. k -> { "a", "1", "-" }] : k \in 1 .. 2 }

\* The sequence numbers of the chunks written.
PathSeqs == { 0, 1, 10, 11 }

\* Every chunk file a request or a goroutine can name.
PathNames == { chunkFilePath(id, i) : id \in PathIDs, i \in 0 .. 11 }

\* ChunksDir is empty; staged is the history of the (file ID, sequence
\* number) pairs each chunk file was written for.
PathInit ==
    /\ KeepCompletedChunks = FALSE
    /\ lock = 0
    /\ data = [id \in PathIDs |-> Nil]
    /\ files = [o \in Objs |-> FreeFile]
    /\ chunksDir = [p \in PathNames |-> NoChunkFile]
    /\ completedDir = [id \in PathIDs |-> NoCompletedFile]
    /\ pc = [r \in Reqs |-> "idle"]
    /\ req = [r \in Reqs |-> NoRequest]
    /\ arrival = [r \in Reqs |-> "none"]
    /\ f = [r \in Reqs |-> Nil]
    /\ response = [r \in Reqs |-> NoResponse]
    /\ event = NoEvent
    /\ combine = [r \in Reqs |-> NoCombine]
    /\ served = [r \in Reqs |-> NotServed]
    /\ cleanup = [r \in Reqs |-> NoCleanup]
    /\ crashed = FALSE
    /\ handoffs = [o \in Objs |-> 0]
    /\ reported = [o \in Objs |-> 0]
    /\ staged = [p \in PathNames |-> {}]

\* part_000 add 41-42: ioutil.WriteFile(chunkFilePath, data), for the last
\* chunk of an upload; combineChunks 97-103 then starts the goroutine over
\* i = 0 .. totalChunks-1.
add_path(r) ==
    /\ Arrives(r)
    /\ Arrived(r)
    /\ Quiet
    /\ pc' = [pc EXCEPT ![r] = "done"]
    /\ \E id \in PathIDs, n \in PathSeqs :
          /\ req' = [req EXCEPT
                       ![r] = [fileID |-> id, chunkExpectedTotal |-> n + 1,
                               chunkSequenceID |-> n, chunkData |-> << "A" >>]]
          /\ chunksDir' = [chunksDir EXCEPT
                             ![chunkFilePath(id, n)] =
                                 [present |-> TRUE, data |-> << "A" >>]]
          /\ staged' = [staged EXCEPT
                          ![chunkFilePath(id, n)] = @ \cup { << id, n >> }]
          /\ cleanup' = [cleanup EXCEPT
                           ![r] = [pc |-> "Remove", fileID |-> id,
                                   totalChunks |-> n + 1, i |-> 0, f |-> Nil,
                                   written |-> {}]]
    /\ UNCHANGED << KeepCompletedChunks, lock, data, files, completedDir, f,
                    response, combine, served, crashed, handoffs, reported >>

\* part_000 delete 50-51: os.Remove(chunkFilePath) of chunk i, there or not;
\* then the goroutine's i++.
delete_path(g) ==
    /\ cleanup[g].pc = "Remove"
    /\ Quiet
    /\ chunksDir' = [chunksDir EXCEPT
                       ![chunkFilePath(cleanup[g].fileID, cleanup[g].i)] =
                           NoChunkFile]
    /\ cleanup' = [cleanup EXCEPT ![g] = nextDelete(@)]
    /\ UNCHANGED << KeepCompletedChunks, lock, data, files, completedDir, pc, req,
                    arrival, f, response, combine, served, crashed, handoffs,
                    reported, staged >>

PathNext ==
    \E r \in Reqs :
        \/ add_path(r)
        \/ delete_path(r)

PathSpec == PathInit /\ [][PathNext]_vars

----------------------------------------------------------------------------
\* Definitions the properties below are stated with.

\* The upload state the registry holds for file ID id.
Registered(id) == files[data[id]]

\* The sequence numbers an upload of n chunks is made of.
SequenceNumbers(n) == 0 .. (n - 1)

\* The payloads staged for chunks 0 .. n-1 of id, one after the other.
RECURSIVE Concatenated(_, _)
Concatenated(id, n) ==
    IF n = 0 THEN << >>
    ELSE Concatenated(id, n - 1) \o staged[chunkFilePath(id, n - 1)]

\* Request r took the step of its handler that leads from pc value from to
\* pc value to.
Stepped(r, from, to) == pc[r] = from /\ pc'[r] = to

\* The step leaves every upload state of the registry as it was: the same
\* entries, each with the same expected total and the same received set.
RegistryUnchanged ==
    /\ data' = data
    /\ \A id \in ValidIDs :
          data[id] # Nil =>
              /\ files'[data[id]].chunkSet = files[data[id]].chunkSet
              /\ files'[data[id]].expectedTotal = files[data[id]].expectedTotal

----------------------------------------------------------------------------
\* C1: for one upload (one upload state of the registry) the downstream
\* handler is invoked at most once, whatever the submissions and their
\* interleaving, re-submissions after completion included: no upload state is
\* handed off a second time.
C1_HandoffOnce == \A o \in Objs : handoffs[o] <= 1

\* C2: whenever the downstream handler is invoked for an upload of N chunks,
\* the body it receives is the concatenation of the staged payloads of
\* sequence numbers 0, 1, ..., N-1 in ascending order.
C2_ArtifactIsConcatenation ==
    [][\A r \in Reqs :
          Stepped(r, "ServeHTTP", "Encode") =>
              served'[r].body =
                  Concatenated(req[r].fileID, req[r].chunkExpectedTotal)]_vars

\* C3: every upload state in the registry has recorded at most as many
\* sequence numbers as its expected total, each of them in [0, expected total).
C3_ReceivedWithinTotal ==
    \A id \in ValidIDs :
        data[id] # Nil =>
            /\ Cardinality(Registered(id).chunkSet) <= Registered(id).expectedTotal
            /\ Registered(id).chunkSet
                   \subseteq SequenceNumbers(Registered(id).expectedTotal)

\* C4: recording a sequence number the upload state has already recorded
\* leaves the received count as it was: a re-submission is not counted again.
C4_ResubmissionNotCounted ==
    [][\A r \in Reqs :
          (/\ Stepped(r, "chunkSet", "countChunks")
           /\ req[r].chunkSequenceID \in Registered(req[r].fileID).chunkSet)
          => Cardinality(files'[data'[req[r].fileID]].chunkSet)
                 = Cardinality(Registered(req[r].fileID).chunkSet)]_vars

\* The same (file ID, sequence number, payload) was submitted once, answered,
\* and then submitted again to the upload while it was still in progress; the
\* second submission has just been recorded.
C4_Resubmitted ==
    \E r1, r2 \in Reqs :
        /\ r1 < r2
        /\ pc[r1] = "done"
        /\ pc[r2] = "countChunks"
        /\ arrival[r2] = "alone"
        /\ req[r1] = req[r2]
        /\ data[req[r2].fileID] # Nil
        /\ Registered(req[r2].fileID).chunkSet = { req[r2].chunkSequenceID }
        /\ Registered(req[r2].fileID).expectedTotal > 1

\* C5: a submission for a file ID the registry knows resolves to the upload
\* state recorded for it, and a submission whose upload state is recorded
\* with another expected total than the one it declares is answered with
\* HTTP 400 and the quantity-change error, its handler changing nothing: not
\* the registry, not an expected total, not a received set, not a staged
\* chunk.
C5_QuantityChangeRejected ==
    [][\A r \in Reqs :
          /\ (/\ pc[r] = "idle"
              /\ pc'[r] \notin { "idle", "done" }
              /\ data[req'[r].fileID] # Nil)
             => /\ pc'[r] = "Lock"
                /\ f'[r] = data[req'[r].fileID]
          /\ (/\ pc[r] = "Lock"
              /\ pc'[r] # "Lock"
              /\ files[f[r]].expectedTotal # req[r].chunkExpectedTotal)
             => /\ pc'[r] = "done"
                /\ event'.request = r
                /\ event'.sent =
                       badRequest("cannot change expected number of chunks")
                /\ RegistryUnchanged
                /\ chunksDir' = chunksDir
                /\ staged' = staged]_vars

\* A submission declaring another total than the one recorded for an upload
\* in progress has just been answered with the quantity-change error.
C5_QuantityChangeAnswered ==
    /\ event.request # 0
    /\ event.sent = badRequest("cannot change expected number of chunks")
    /\ data[req[event.request].fileID] # Nil
    /\ Registered(req[event.request].fileID).chunkSet # {}
    /\ Cardinality(Registered(req[event.request].fileID).chunkSet)
           < Registered(req[event.request].fileID).expectedTotal
    /\ Registered(req[event.request].fileID).expectedTotal
           # req[event.request].chunkExpectedTotal

\* Request q names a file, declares a total, and carries a sequence number
\* that is equal to the total or greater.
OutOfRange(q) ==
    /\ getFileID(q.fileID) = ""
    /\ getChunkTotal(q.chunkTotal) = ""
    /\ ParseInt(q.chunkSequence).ok
    /\ ParseInt(q.chunkSequence).val >= ParseInt(q.chunkTotal).val

\* C6: a chunk whose sequence number is equal to its expected total, or
\* greater, is answered with HTTP 400 and an error, and no upload state
\* changes; no request that is accepted carries such a sequence number.
C6_SequenceOutOfRangeRejected ==
    [][\A r \in Reqs :
          (pc[r] = "idle" /\ pc'[r] # "idle")
          => /\ (event'.request = r /\ OutOfRange(event'.headers))
                => /\ pc'[r] = "done"
                   /\ event'.sent.kind = "error"
                   /\ event'.sent.status = 400
                   /\ RegistryUnchanged
                   /\ files' = files
                   /\ chunksDir' = chunksDir
             /\ pc'[r] # "done"
                => req'[r].chunkSequenceID < req'[r].chunkExpectedTotal]_vars

\* A chunk whose sequence number is its expected total has just been
\* answered 400 while an upload that has received a chunk is registered.
C6_SequenceEqualsTotal ==
    /\ event.request # 0
    /\ OutOfRange(event.headers)
    /\ ParseInt(event.headers.chunkSequence).val
           = ParseInt(event.headers.chunkTotal).val
    /\ event.sent.status = 400
    /\ data[event.headers.fileID] # Nil
    /\ Registered(event.headers.fileID).chunkSet # {}

\* C7: when the downstream handler rejects the completed file with a status
\* and a reason, the response of that submission is the progress response
\* with that status, that reason, and the counts of the completed upload
\* (have = want = the total of the upload that was combined), and the
\* combined file had received every chunk before the handler was called; a
\* response sent without the handler having been called is never a rejection.
C7_RejectionInCompletingResponse ==
    [][\A r \in Reqs :
          (pc[r] # "done" /\ pc'[r] = "done" /\ event'.request = r)
          => IF pc[r] = "Encode"
             THEN /\ event'.called
                  /\ combine[r].i = combine[r].totalChunks
                  /\ completedDir[req[r].fileID].exists
                  /\ event'.reject # NoReject
                     => event'.sent =
                            [kind |-> "progress",
                             status |-> event'.reject.code,
                             have |-> combine[r].totalChunks,
                             want |-> combine[r].totalChunks,
                             error |-> event'.reject.message]
             ELSE /\ ~event'.called
                  /\ event'.reject = NoReject
                  /\ event'.sent.kind = "progress"
                     => event'.sent.status = 200 /\ event'.sent.error = ""]_vars

\* The handler has rejected a completed upload of more than one chunk.
C7_Rejected ==
    /\ event.called
    /\ event.reject = [code |-> 400, message |-> "bad format"]
    /\ event.sent.status = 400
    /\ event.sent.error = "bad format"
    /\ req[event.request].chunkExpectedTotal > 1

\* C8: sequence number 0 of an upload of one chunk is submitted with payload
\* A and, once that is answered, with payload B, and nothing else is
\* submitted; no storage call of the second submission fails.  Then the
\* second is answered with a progress response that counts 1 chunk, and the
\* combined file is B.
C8_LastWriteWins ==
    \A r1, r2 \in Reqs :
        (/\ r1 < r2
         /\ \A r \in Reqs \ { r1, r2 } : pc[r] = "idle"
         /\ pc[r1] = "done"
         /\ req[r1] = [fileID |-> << "a" >>, chunkExpectedTotal |-> 1,
                       chunkSequenceID |-> 0, chunkData |-> << "A" >>]
         /\ req[r2] = [fileID |-> << "a" >>, chunkExpectedTotal |-> 1,
                       chunkSequenceID |-> 0, chunkData |-> << "B" >>]
         /\ arrival[r2] = "alone"
         /\ event.request = r2
         /\ event.fault = "")
        => /\ event.sent.kind = "progress"
           /\ event.sent.have = 1
           /\ completedDir[<< "a" >>].bytes = << "B" >>

\* C9: when the write of the chunk file fails, the submission is answered
\* with HTTP 500 and its handler returns at once: no upload state changes (the
\* sequence number is not recorded), nothing is combined, nothing handed off.
\* A write that succeeds changes no upload state either; the sequence number
\* is recorded by the step after it.
C9_FailedWriteNotRecorded ==
    [][\A r \in Reqs :
          (pc[r] = "add" /\ pc'[r] # "add")
          => /\ RegistryUnchanged
             /\ completedDir' = completedDir
             /\ cleanup' = cleanup \/ pc'[r] = "chunkSet"
             /\ \/ /\ pc'[r] = "chunkSet"
                   /\ chunksDir'[chunkFilePath(req[r].fileID,
                                               req[r].chunkSequenceID)].present
                \/ /\ pc'[r] = "done"
                   /\ event'.request = r
                   /\ event'.sent = internalServerError
                   /\ event'.fault = "WriteFile"
                   /\ ~event'.called
                   /\ chunksDir' = chunksDir]_vars

\* The write of a chunk has just failed for an upload that is registered and
\* has not recorded the chunk's sequence number.
C9_WriteFailed ==
    /\ event.request # 0
    /\ event.fault = "WriteFile"
    /\ event.sent.status = 500
    /\ data[req[event.request].fileID] # Nil
    /\ req[event.request].chunkSequenceID
           \notin Registered(req[event.request].fileID).chunkSet

\* Request r arrived after request g had returned: requests arrive in the
\* order of their numbers, and none was in flight as r arrived.
ArrivedAfter(r, g) == g < r /\ arrival[r] = "alone"

\* C10: the cleanup goroutine of a finished upload never removes a chunk file
\* written since the goroutine was started by a submission that arrived after
\* the upload was finished.
C10_CleanupSparesNewerChunks ==
    [][\A g \in Reqs :
          (cleanup[g].pc = "Remove" /\ cleanup'[g].pc = "chunkSet")
          => ~\E w \in cleanup[g].written :
                 /\ w.chunkID = cleanup[g].i
                 /\ ArrivedAfter(w.request, g)]_vars

\* C11: the counts reported in the progress responses of one upload never
\* decrease: a progress response sent by a request that holds a *file never
\* reports a smaller count than the progress response sent before it by a
\* request that held the same *file.
C11_ReportedCountMonotone ==
    [][\A r \in Reqs :
          (event'.request = r /\ event'.sent.kind = "progress")
          => event'.sent.have >= reported[f[r]]]_vars

\* C12: the progress response of the submission that completes an upload,
\* the one whose handler call ran the downstream handler, reports have and
\* want both equal to the chunk count the upload expects, which is the
\* total that submission declared.
C12_CompletingResponseCounts ==
    event.called
    => /\ event.sent.have = req[event.request].chunkExpectedTotal
       /\ event.sent.want = req[event.request].chunkExpectedTotal

\* Request q lacks an identity, a chunk total or a sequence number, or has
\* one that is malformed, or its sequence number is outside [0, total), or
\* its payload is empty.
InvalidRequest(q) ==
    \/ q.fileID = << >>
    \/ \E k \in 1 .. Len(q.fileID) :
          q.fileID[k] \notin LetterChars \cup DigitChars \cup { "_", "-" }
    \/ ~ParseInt(q.chunkTotal).ok
    \/ ~ParseInt(q.chunkSequence).ok
    \/ ParseInt(q.chunkSequence).val < 0
    \/ ParseInt(q.chunkSequence).val >= ParseInt(q.chunkTotal).val
    \/ q.body = << >>

StagedChunks(id) == { n \in SeqNums : chunksDir[chunkFilePath(id, n)].present }

\* C15: with cleanup enabled and no storage call failing, once combineChunks
\* has combined an upload and started its cleanup, a state is eventually
\* reached in which no chunk of the identity is staged and the identity is
\* not in the registry, whatever further submissions for it arrive.  (The
\* runs in which two handlers were ever in flight together are left to the
\* claim about getFileOrAdd: here every submission arrives after the one
\* before it was answered.)
C15_EventuallyCleanedUp ==
    \A id \in ValidIDs :
        (\E g \in Reqs : cleanup[g].pc # "none" /\ cleanup[g].fileID = id)
        ~> \/ StagedChunks(id) = {} /\ data[id] = Nil
           \/ \E r \in Reqs : arrival[r] = "overlap"

\* C16: with KeepCompletedChunks set, the step that ends a successful
\* combine starts no cleanup and changes no chunk file, no received set and
\* no registry entry; and no step at all removes a staged chunk, takes a
\* sequence number out of a received set, or takes an entry out of the
\* registry.
C16_KeptChunksUntouched ==
    [][KeepCompletedChunks
       => /\ \A r \in Reqs :
                Stepped(r, "ReadFile", "ServeHTTP")
                => /\ cleanup' = cleanup
                   /\ chunksDir' = chunksDir
                   /\ files' = files
                   /\ data' = data
          /\ \A g \in Reqs : cleanup'[g].pc = "none"
          /\ \A path \in ChunkPaths :
                chunksDir[path].present => chunksDir'[path].present
          /\ \A o \in Objs :
                (Referenced(o) /\ ReferencedNext(o))
                => files[o].chunkSet \subseteq files'[o].chunkSet
          /\ \A id \in ValidIDs : data[id] # Nil => data'[id] # Nil]_vars

\* KeepCompletedChunks is set and an upload of two chunks has been combined
\* and handed off: its chunks are staged, its received set is full and it is
\* registered.
C16_CombinedAndKept ==
    /\ KeepCompletedChunks
    /\ event.called
    /\ req[event.request].chunkExpectedTotal = 2
    /\ Len(completedDir[req[event.request].fileID].bytes) = 2
    /\ data[req[event.request].fileID] # Nil
    /\ Registered(req[event.request].fileID).chunkSet = { 0, 1 }
    /\ StagedChunks(req[event.request].fileID) = { 0, 1 }

\* The upload ID header h names no upload a start call was answered with:
\* it is no integer, or it is one that was never issued.
NeverIssued(h) == ~ParseInt(h).ok \/ ParseInt(h).val \notin Issued

\* C17: in the start-call design a chunk whose upload ID header is no
\* integer, or is an ID no start call has issued, is answered with HTTP 400
\* and an error, and the step creates no upload, changes no upload and
\* writes no chunk; every chunk that ChunksMiddleware goes on with is for an
\* issued ID and is given the upload stored under it.
C17_UnknownUploadRejected ==
    [][\A r \in Reqs :
          (pc[r] = "idle" /\ pc'[r] # "idle")
          => /\ (event'.request = r /\ ~req'[r].start
                   /\ NeverIssued(event'.headers.fileID))
                => /\ pc'[r] = "done"
                   /\ event'.sent.kind = "error"
                   /\ event'.sent.status = 400
                   /\ data' = data
                   /\ files' = files
                   /\ chunksDir' = chunksDir
             /\ pc'[r] # "done"
                => /\ ~NeverIssued(req'[r].fileID)
                   /\ f'[r] # Nil
                   /\ f'[r] = data[ParseInt(req'[r].fileID).val]
                   /\ data' = data
                   /\ files' = files
                   /\ chunksDir' = chunksDir]_vars

\* An upload was started and is registered, and a chunk for an upload ID
\* that createUpload could issue but has not has just been answered 400.
C17_UnissuedAnswered ==
    /\ event.request # 0
    /\ ~req[event.request].start
    /\ ParseInt(event.headers.fileID).ok
    /\ ParseInt(event.headers.fileID).val \in UploadNumbers \ Issued
    /\ event.headers.body # << >>
    /\ event.sent.status = 400
    /\ \E n \in Issued : data[n] # Nil

\* C18: creation of an upload state is atomic: when a first submission for
\* an identity comes to store the *file it made while another submission
\* for that identity already holds the *file registered under it, it
\* resolves to that *file and replaces nothing; the two submissions share
\* one upload state and one lock.
C18_CreationAtomic ==
    [][\A r \in Reqs : \A o \in Reqs \ { r } :
          (/\ pc[r] = "Store" /\ pc'[r] # "Store"
           /\ f[o] # Nil
           /\ req[o].fileID = req[r].fileID
           /\ data[req[r].fileID] = f[o])
          => /\ f'[r] = f[o]
             /\ data' = data]_vars

\* C19: in the Middleware of part_002 the lock under which the completion
\* check was made, a.lock, is held by the request while combineChunks writes
\* the completed file and while the downstream handler it called is running.
C19_LockHeldThroughHandoff ==
    \A r \in Reqs :
        (pc[r] \in { "Create", "ReadFile" } \/ served[r].called) => lock = r

\* C20: a chunk submission waiting to take a.lock in the Middleware of
\* part_002 never waits for a submission for a different file ID: whenever a
\* request is at a.lock.Lock() while another request holds the lock, the two
\* requests carry the same file ID.
C20_NoWaitAcrossIdentities ==
    \A r \in Reqs :
        (pc[r] = "a.lock.Lock" /\ lock # 0)
            => req[lock].fileID = req[r].fileID

\* C21: in the tracker of src/tracker.go every step that changes the
\* registry a.data or the chunkSet of a *file is taken by the request that
\* holds a.lock; the deletions of the cleanup goroutine are such steps too.
C21_MutationsUnderLock ==
    [][(\/ data' # data
        \/ \E o \in Objs :
              /\ Referenced(o) /\ ReferencedNext(o)
              /\ files'[o].chunkSet # files[o].chunkSet)
       => /\ lock # 0
          /\ pc'[lock] # pc[lock]]_vars

\* C22: the registry entry of an identity is removed only after cleanup has
\* completed: in no reachable state is the identity absent from a.data while
\* a chunk file staged for it is still in ChunksDir.  (Stated for the runs in
\* which every submission arrives after the one before it was answered; the
\* runs with two handlers in flight together are left to the claim about
\* getFileOrAdd.)
C22_NoStagedChunkWithoutEntry ==
    (\A r \in Reqs : arrival[r] # "overlap")
        => \A id \in ValidIDs : data[id] = Nil => StagedChunks(id) = {}

\* C23: delete on a chunk file that is already missing is taken as a success:
\* when the cleanup goroutine comes to os.Remove a chunk file that is not in
\* ChunksDir, it goes on as after a removal, to take the sequence number out
\* of the received set (and the entry out of the registry once the set is
\* empty).
C23_MissingChunkTolerated ==
    [][\A g \in Reqs :
          (/\ cleanup[g].pc = "Remove"
           /\ cleanup'[g] # cleanup[g]
           /\ ~chunksDir[chunkFilePath(cleanup[g].fileID, cleanup[g].i)].present)
          => cleanup'[g].pc = "chunkSet"]_vars

\* C24: when combineChunks fails (os.Create fails, or os.ReadFile finds a
\* chunk file missing or cannot read it), the step that ends the request
\* answers it with HTTP 500, the downstream handler was not and is not
\* called, no cleanup goroutine is started, and every registry entry and the
\* received set and expected total behind it are what they were.
C24_FailedCombineKeepsUpload ==
    [][\A r \in Reqs :
          (/\ pc[r] \in { "Create", "ReadFile" }
           /\ pc'[r] = "done"
           /\ event'.sent.kind # "aborted")
          => /\ event'.request = r
             /\ event'.sent = internalServerError
             /\ ~served[r].called
             /\ ~event'.called
             /\ cleanup' = cleanup
             /\ data' = data
             /\ \A id \in ValidIDs :
                   data[id] # Nil
                   => /\ files'[data[id]].chunkSet = files[data[id]].chunkSet
                      /\ files'[data[id]].expectedTotal
                             = files[data[id]].expectedTotal]_vars

\* A combine has just failed on a chunk it could not read, and the upload is
\* still registered with its chunks recorded.
C24_CombineFailed ==
    /\ event.fault = "ReadFile"
    /\ event.sent = internalServerError
    /\ pc[event.request] = "done"
    /\ data[req[event.request].fileID] # Nil
    /\ files[data[req[event.request].fileID]].chunkSet # {}

\* C25: every upload state in the registry has an expected chunk count of at
\* least 1: a start call (or, in the header design, a first chunk) declaring
\* a total of zero or less is rejected and registers nothing.
C25_ExpectedTotalPositive ==
    \A id \in DOMAIN data :
        data[id] # Nil => files[data[id]].expectedTotal >= 1

\* C26: chunk files are keyed by (file ID, sequence number): two requests
\* whose file IDs (letters, digits, underscore, hyphen) or non-negative
\* sequence numbers differ write different chunk files, and a chunk file the
\* cleanup goroutine of an upload removes was written for nothing but that
\* upload's file ID and a sequence number below its total.
C26_KeysScopedByIdentityAndSequence ==
    /\ [](\A r \in Reqs : \A o \in Reqs :
             (/\ pc[r] = "done" /\ pc[o] = "done"
              /\ << req[r].fileID, req[r].chunkSequenceID >>
                     # << req[o].fileID, req[o].chunkSequenceID >>)
             => chunkFilePath(req[r].fileID, req[r].chunkSequenceID)
                    # chunkFilePath(req[o].fileID, req[o].chunkSequenceID))
    /\ [][\A p \in DOMAIN chunksDir :
             (chunksDir[p].present /\ ~chunksDir'[p].present)
             => \E g \in Reqs :
                   /\ cleanup[g].pc = "Remove"
                   /\ cleanup'[g] # cleanup[g]
                   /\ staged[p] \subseteq
                          { << cleanup[g].fileID, i >> :
                                i \in 0 .. (cleanup[g].totalChunks - 1) }]_vars

\* Two chunks were written whose file IDs and sequence numbers differ but
\* read the same once the hyphen is left out (a1 and 0, a and 10), and the
\* cleanup of the first upload has ended with the other chunk still staged.
C26_NearCollision ==
    \E r \in Reqs : \E o \in Reqs \ { r } :
        /\ pc[r] = "done" /\ pc[o] = "done"
        /\ req[r].fileID # req[o].fileID
        /\ req[r].fileID \o FormatInt(req[r].chunkSequenceID)
               = req[o].fileID \o FormatInt(req[o].chunkSequenceID)
        /\ cleanup[r].pc = "none"
        /\ chunksDir[chunkFilePath(req[o].fileID, req[o].chunkSequenceID)].present

\* C27: in the Middleware of part_002, while the downstream handler called
\* for a request is reading the completed file of its file ID, no step of
\* another request creates that file anew or writes to it.
C27_ArtifactStableDuringHandoff ==
    [][\A r \in Reqs :
          (pc[r] = "Encode" /\ pc'[r] = "Encode")
          => completedDir'[req[r].fileID] = completedDir[req[r].fileID]]_vars

\* C28: with no storage call failing, while combineChunks runs its loop after
\* isComplete was true under the upload's lock, every chunk file it has still
\* to read is in ChunksDir, an earlier cleanup goroutine for the file ID
\* running or not.  (Stated for the runs in which every submission arrives
\* after the one before it was answered; the runs with two handlers in
\* flight together are left to the claim about getFileOrAdd.)
C28_ChunksPresentDuringCombine ==
    (\A r \in Reqs : arrival[r] # "overlap")
        => \A r \in Reqs :
              pc[r] = "ReadFile"
              => \A i \in combine[r].i .. (combine[r].totalChunks - 1) :
                    chunksDir[chunkFilePath(req[r].fileID, i)].present

\* C29: from getFileOrAdd's return until the request has recorded and counted
\* its chunk, the registry maps the request's file ID to the *file the
\* request holds, so that add, countChunks, totalChunks and isComplete never
\* dereference a nil *file, whatever the cleanup goroutine does.  (Stated
\* for the runs in which every submission arrives after the one before it was
\* answered; the runs with two handlers in flight together are left to the
\* claim about getFileOrAdd.)
C29_EntryKeptWhileInUse ==
    (\A r \in Reqs : arrival[r] # "overlap")
        => \A r \in Reqs :
              pc[r] \in { "Lock", "add", "chunkSet", "countChunks", "totalChunks",
                          "isComplete", "isComplete2" }
              => /\ f[r] # Nil
                 /\ data[req[r].fileID] = f[r]

\* C30: in the Middleware of part_002 a request that took a.lock has released
\* it by the time its handler has ended, whichever way it ended and whether
\* or not the cleanup goroutine removed the upload's entry meanwhile: no
\* ended request holds a.lock, so a later request can take it.
C30_LockReleasedOnEveryExit ==
    \A r \in Reqs : pc[r] = "done" => lock # r

====
